---- MODULE Spec2Model ----
(***************************************************************************)
(* VaultInterface of the yearn SDK.  One action is one continuation of the  *)
(* async code: it runs from the completion of an awaited call to the next  *)
(* await.                                                                  *)
(*                                                                         *)
(*   Spec       get on a cache miss with no address filter, and the calls  *)
(*              it makes (getStatic, getDynamic, the metadata, strategy    *)
(*              and earnings lookups)                                      *)
(*   CacheSpec  get, getDynamic and tokens with every cache state and      *)
(*              address filter                                             *)
(*   TwiceSpec  get called twice with the same filter, cache state and     *)
(*              collaborator answers                                       *)
(*   RouteSpec  getDepositContractAddress and getWithdrawContractAddress   *)
(*   TxSpec     deposit and withdraw, down to the signer                   *)
(*   FillSpec   fillMetadataOverrides on every metadata and override record*)
(*   ApproveSpec    getDepositContractAddress, then deposit with the same  *)
(*                  vault and token                                        *)
(*   PositionsSpec  positionsOf over two adapters                          *)
(*   YearnSpec      the Yearn instance through its constructor and         *)
(*                  setChainId                                             *)
(*                                                                         *)
(* Vault addresses are the naturals 1..registry.  The registry adapter     *)
(* lists its vaults in the order 1, 2, ..., registry; every relative       *)
(* arrangement of input order against override order is reached by the     *)
(* choice of the override order values.                                    *)
(***************************************************************************)
EXTENDS Integers, Sequences, FiniteSets, TLC

\* Registries of up to MaxVaults vaults are explored with every curated
\* override and with a vault missing from the dynamic answer.
MaxVaults == 3

\* Registries of up to MaxAddrs vaults are explored for the chunked fallback.
MaxAddrs == 61

\* chunkArray(allAddresses, 30)
ChunkSize == 30

\* override.order values of the curated metadata
OrderValues == {0, 1}

Undefined == "undefined"

\* Instances are explored through up to MaxSetChainId calls of setChainId.
MaxSetChainId == 3

\* Cached lists and address filters of up to MaxCached addresses out of 1..MaxCached
\* are explored, with registries of up to MaxCached vaults behind them.
MaxCached == 2

VARIABLES
  registry,                \* number of vaults the registry adapter knows
  pc,                      \* position of get: start, metaStatic, dynamic, chunked, enrich, done
  metaCall,                \* services.meta.vaults(): idle, pending, ok, failed
  staticCall,              \* getStatic(): idle, pending, ok, failed
  vaultMetadataOverrides,  \* get's local of that name
  assetsStatic,            \* get's local of that name
  unchunked,               \* the unchunked getDynamic call
  chunkCalls,              \* the getDynamic calls of the chunked fallback, in chunk order
  assetsDynamic,           \* get's local of that name
  stratCall,               \* vaultsStrategiesMetadata(): idle, pending, ok, failed
  earnCall,                \* assetsHistoricEarnings(): idle, pending, ok, failed
  outcome,                 \* what the operation returned or threw
  log,                     \* the calls the operation issued, in order
  op,                      \* the operation called
  addresses,               \* its address filter
  cached,                  \* what its cachedFetcher.fetch() resolves to
  chainId,                 \* this.chainId
  previous,                \* the call before this one: what it was answered and its outcome
  vault,                   \* the vault address a route or a transaction is asked for
  token,                   \* the token address it is asked with
  vaultStatic,             \* what getStatic([vault]) settles with
  partner,                 \* services.partner, may be undefined
  addressProvider,         \* how addressProvider.addressById settles: resolves, rejects
  slippage,                \* options.slippage of deposit and withdraw
  callerOverrides,         \* the gas fields of the overrides object as the caller passed it
  allowList,               \* whether the transaction service has an allow-list service
  metadata,                \* dynamic.metadata as fillMetadataOverrides receives it
  override,                \* the VaultMetadataOverrides record it receives
  overrides,               \* the gas fields of the caller's overrides object as they are now
  route,                   \* the route deposit or withdraw took, and zapIn's zapProtocol
  attempt,                 \* the attempt of the gas fallback under way: 0 before the first
  originalGasPrice,        \* executeVaultContractTransaction's local of that name
  sent,                    \* the transactions handed to sendTransaction, in order
  rejected,                \* the codes of the errors the awaits of a send attempt rejected with
  positions,               \* positionsOf: per adapter, its unfiltered call and its chunk calls
  yearn                    \* the Yearn instance: what each of its components is bound to

vars == <<registry, pc, metaCall, staticCall, vaultMetadataOverrides, assetsStatic,
          unchunked, chunkCalls, assetsDynamic, stratCall, earnCall, outcome, log,
          op, addresses, cached, chainId, previous,
          vault, token, vaultStatic, partner, addressProvider,
          slippage, callerOverrides, allowList, metadata, override,
          overrides, route, attempt, originalGasPrice, sent, rejected,
          positions, yearn>>

\* What a call is made with, the environment it meets and the record of the call
\* before it: no step of the call changes them
inputs == <<op, addresses, cached, chainId, previous,
            vault, token, vaultStatic, partner, addressProvider,
            slippage, callerOverrides, allowList, metadata, override>>

\* What deposit and withdraw change besides pc, log and outcome
transaction == <<overrides, route, attempt, originalGasPrice, sent, rejected>>

\* The calls of positionsOf and the Yearn instance: no other operation touches them
instance == <<positions, yearn>>

\* get's locals and the calls it awaits
aggregation == <<registry, metaCall, staticCall, vaultMetadataOverrides, assetsStatic,
                 unchunked, chunkCalls, assetsDynamic, stratCall, earnCall>>

----------------------------------------------------------------------------
\* Helpers on sequences

Min(a, b) == IF a < b THEN a ELSE b

Range(s) == {s[i] : i \in 1..Len(s)}

Addresses(s) == [i \in 1..Len(s) |-> s[i].address]

\* Array.prototype.find: the index of the first element with the address, 0 for none
FindIndex(s, a) ==
  LET matches == {i \in 1..Len(s) : s[i].address = a}
  IN  IF matches = {} THEN 0 ELSE CHOOSE i \in matches : \A j \in matches : i <= j

\* Array.prototype.flat on an array of arrays
RECURSIVE Flat(_)
Flat(ss) == IF ss = <<>> THEN <<>> ELSE Head(ss) \o Flat(Tail(ss))

Count(s, a) == Cardinality({i \in 1..Len(s) : s[i].address = a})

\* An optional array: undefined, or the array
None == [defined |-> FALSE, value |-> <<>>]
Some(v) == [defined |-> TRUE, value |-> v]

\* A promise that rejects, and one that resolves to v
Rejects == [settles |-> "rejected", value |-> <<>>]
Resolves(v) == [settles |-> "resolved", value |-> v]

\* services.partner: undefined, or a service with what its isAllowed(vault) says and
\* its address ("" when none is configured)
NoPartner == [defined |-> FALSE, allowed |-> FALSE, address |-> ""]
Partner(allowed, address) == [defined |-> TRUE, allowed |-> allowed, address |-> address]

\* The gas fields of a CallOverrides object or of a transaction
Gas(gasPrice, maxFeePerGas, maxPriorityFeePerGas) ==
  [gasPrice |-> gasPrice, maxFeePerGas |-> maxFeePerGas, maxPriorityFeePerGas |-> maxPriorityFeePerGas]

\* A route of deposit or withdraw: none, direct, zapper or wido, and the zapProtocol
\* zapIn was called with (none, PICKLE, YEARN)
Route(kind, zapProtocol) == [kind |-> kind, zapProtocol |-> zapProtocol]

\* fillMetadataOverrides is not called
NoFill ==
  /\ metadata = <<>>
  /\ override = <<>>

\* positionsOf is not called and the Yearn instance is not looked at
NoInstance ==
  /\ positions = <<>>
  /\ yearn = <<>>

\* No transaction is under way
NoTransaction ==
  /\ slippage = Undefined
  /\ callerOverrides = Gas(Undefined, Undefined, Undefined)
  /\ allowList = FALSE
  /\ overrides = callerOverrides
  /\ route = Route("none", "none")
  /\ attempt = 0
  /\ originalGasPrice = Undefined
  /\ sent = <<>>
  /\ rejected = <<>>

\* The aggregation calls take no vault, token or partner
NoRoute ==
  /\ vault = ""
  /\ token = ""
  /\ vaultStatic = Rejects
  /\ partner = NoPartner
  /\ addressProvider = "rejects"
  /\ NoTransaction

\* addresses.includes(address)
Includes(list, a) == \E i \in 1..Len(list) : list[i] = a

\* The arrays of up to n elements of S
RECURSIVE Arrays(_, _)
Arrays(S, n) ==
  IF n = 0 THEN {<<>>}
  ELSE Arrays(S, n - 1) \cup {Append(s, x) : s \in {r \in Arrays(S, n - 1) : Len(r) = n - 1}, x \in S}

----------------------------------------------------------------------------
\* Records

\* VaultStatic as the adapter's assetsStatic returns it
StaticRecord(a) == [address |-> a, name |-> "name"]

\* VaultDynamic as the adapter's assetsDynamic returns it: the address and the
\* metadata fields get reads or writes
DynamicRecord(a) ==
  [address |-> a, apy |-> Undefined, strategies |-> Undefined, historicEarnings |-> Undefined]

\* The adapter's assetsStatic(addresses): the registry's vaults, those of the filter
\* when one is given
AdapterStatic(n, filter) ==
  IF filter.defined
  THEN SelectSeq([a \in 1..n |-> StaticRecord(a)], LAMBDA v : Includes(filter.value, v.address))
  ELSE [a \in 1..n |-> StaticRecord(a)]

\* The adapter's answer for the addresses asked, without the vault `gone`
\* (0: none gone), which left the registry between the two fetches
AdapterDynamic(addrs, gone) ==
  LET present == SelectSeq(addrs, LAMBDA a : a # gone)
  IN  [i \in 1..Len(present) |-> DynamicRecord(present[i])]

\* vision.apy(addresses) answers assetsApy; getDynamic's map sets metadata.apy
WithApy(data) == [i \in 1..Len(data) |-> [data[i] EXCEPT !.apy = "apy"]]

\* The vaults that may be gone from an adapter answer for addrs: one of a registry
\* of up to MaxVaults vaults, none of a larger one
GoneChoices(addrs, n) == IF n > MaxVaults THEN {0} ELSE {0} \cup Range(addrs)

\* One curated override; order is read only when hasOrder
Override(a, hide, hasOrder, order) ==
  [address |-> a, hideAlways |-> hide, hasOrder |-> hasOrder, order |-> order]

\* What the curated metadata may say of vault a: nothing at all, an order, hideAlways,
\* or hideAlways with an order
OverrideChoices(a) ==
  {<<>>}
    \cup {<<Override(a, FALSE, TRUE, o)>> : o \in OrderValues}
    \cup {<<Override(a, TRUE, FALSE, 0)>>}
    \cup {<<Override(a, TRUE, TRUE, o)>> : o \in OrderValues}

\* The curated lists over the vaults 1..k
RECURSIVE OverrideLists(_)
OverrideLists(k) ==
  IF k = 0 THEN {<<>>}
  ELSE {list \o choice : list \in OverrideLists(k - 1), choice \in OverrideChoices(k)}

\* The answers of services.meta.vaults(): registries larger than MaxVaults have no
\* curated overrides
MetaAnswers(n) == IF n > MaxVaults THEN {<<>>} ELSE OverrideLists(n)

\* strategies.vaultsStrategiesMetadata(addresses): one entry per vault asked
\* (address stands for vaultAddress)
StrategiesAnswer(addrs) == [i \in 1..Len(addrs) |-> [address |-> addrs[i], data |-> "strategies"]]

\* earnings.assetsHistoricEarnings(): one entry per vault of the registry
\* (address stands for assetAddress, data for dayData)
EarningsAnswer(n) == [i \in 1..n |-> [address |-> i, data |-> "dayData"]]

----------------------------------------------------------------------------
\* chunkArray(array, size) of ../helpers: consecutive slices of `size` elements,
\* the last one shorter
chunkArray(array, size) ==
  [i \in 1..((Len(array) + size - 1) \div size) |->
     SubSeq(array, (i - 1) * size + 1, Min(i * size, Len(array)))]

----------------------------------------------------------------------------
\* The merge loop of get

\* Math.max() with no argument is -Infinity
MathMax == [finite |-> FALSE, value |-> 0]

Number(n) == [finite |-> TRUE, value |-> n]

\* overrides?.order ?? Math.max()
OrderOf(ovs, a) ==
  LET k == FindIndex(ovs, a)
  IN  IF k # 0 /\ ovs[k].hasOrder THEN Number(ovs[k].order) ELSE MathMax

\* overrides?.hideAlways
HideAlways(ovs, a) ==
  LET k == FindIndex(ovs, a) IN k # 0 /\ ovs[k].hideAlways

\* array.find(...)?.data
Lookup(list, a) ==
  LET k == FindIndex(list, a) IN IF k = 0 THEN Undefined ELSE list[k].data

\* { ...asset, ...dynamic } after the assignments to dynamic.metadata
MergedVault(asset, dynamic, strat, earn) ==
  [address |-> dynamic.address, name |-> asset.name, apy |-> dynamic.apy,
   strategies |-> Lookup(strat, asset.address),
   historicEarnings |-> Lookup(earn, asset.address)]

\* MergeAsset with the hideAlways test moved before the test of the dynamic record
MergeAssetHideFirst(asset, dyn, ovs, strat, earn) ==
  LET d == FindIndex(dyn, asset.address)
  IN  IF HideAlways(ovs, asset.address) THEN [act |-> "continue", items |-> <<>>]
      ELSE IF d = 0 THEN [act |-> "throw", items |-> <<>>]
      ELSE [act |-> "push",
            items |-> <<[vault |-> MergedVault(asset, dyn[d], strat, earn),
                         order |-> OrderOf(ovs, asset.address)]>>]

\* MergeAsset hiding a vault only when its override gives no order
MergeAssetHideUnordered(asset, dyn, ovs, strat, earn) ==
  LET d == FindIndex(dyn, asset.address)
  IN  IF d = 0 THEN [act |-> "throw", items |-> <<>>]
      ELSE IF HideAlways(ovs, asset.address) /\ ~OrderOf(ovs, asset.address).finite
      THEN [act |-> "continue", items |-> <<>>]
      ELSE [act |-> "push",
            items |-> <<[vault |-> MergedVault(asset, dyn[d], strat, earn),
                         order |-> OrderOf(ovs, asset.address)]>>]

\* One iteration of `for (const asset of assetsStatic)`: throw, continue or push
MergeAsset(asset, dyn, ovs, strat, earn) ==
  LET d == FindIndex(dyn, asset.address)
  IN  IF d = 0 THEN [act |-> "throw", items |-> <<>>]
      ELSE IF HideAlways(ovs, asset.address) THEN [act |-> "continue", items |-> <<>>]
      ELSE [act |-> "push",
            items |-> <<[vault |-> MergedVault(asset, dyn[d], strat, earn),
                         order |-> OrderOf(ovs, asset.address)]>>]

\* MergeFrom leaving the loop at the first hidden vault (break for continue)
RECURSIVE MergeFromBreak(_, _, _, _, _, _)
MergeFromBreak(i, static, dyn, ovs, strat, earn) ==
  IF i > Len(static) THEN [thrown |-> FALSE, address |-> 0, items |-> <<>>]
  ELSE LET step == MergeAsset(static[i], dyn, ovs, strat, earn)
       IN  IF step.act = "throw"
           THEN [thrown |-> TRUE, address |-> static[i].address, items |-> <<>>]
           ELSE IF step.act = "continue"
           THEN [thrown |-> FALSE, address |-> 0, items |-> <<>>]
           ELSE LET rest == MergeFromBreak(i + 1, static, dyn, ovs, strat, earn)
                IN  [rest EXCEPT !.items = IF rest.thrown THEN <<>> ELSE step.items \o rest.items]

\* The loop from assetsStatic[i] on: the first throw ends it
RECURSIVE MergeFrom(_, _, _, _, _, _)
MergeFrom(i, static, dyn, ovs, strat, earn) ==
  IF i > Len(static) THEN [thrown |-> FALSE, address |-> 0, items |-> <<>>]
  ELSE LET step == MergeAsset(static[i], dyn, ovs, strat, earn)
       IN  IF step.act = "throw"
           THEN [thrown |-> TRUE, address |-> static[i].address, items |-> <<>>]
           ELSE LET rest == MergeFrom(i + 1, static, dyn, ovs, strat, earn)
                IN  [rest EXCEPT !.items = IF rest.thrown THEN <<>> ELSE step.items \o rest.items]

\* CompareOrder with the operands exchanged (rhs.order - lhs.order)
CompareOrderReversed(lhs, rhs) ==
  IF lhs.order.finite /\ rhs.order.finite THEN rhs.order.value - lhs.order.value
  ELSE IF ~lhs.order.finite /\ ~rhs.order.finite THEN 0
  ELSE IF ~rhs.order.finite THEN -1
  ELSE 1

\* lhs.order - rhs.order as Array.prototype.sort reads it: a NaN result
\* (-Infinity - -Infinity) counts as +0
CompareOrder(lhs, rhs) ==
  IF lhs.order.finite /\ rhs.order.finite THEN lhs.order.value - rhs.order.value
  ELSE IF ~lhs.order.finite /\ ~rhs.order.finite THEN 0
  ELSE IF ~lhs.order.finite THEN -1
  ELSE 1

\* Array.prototype.sort is stable: x goes after every element it does not precede
RECURSIVE InsertSorted(_, _)
InsertSorted(sorted, x) ==
  IF sorted = <<>> THEN <<x>>
  ELSE IF CompareOrder(x, Head(sorted)) < 0 THEN <<x>> \o sorted
  ELSE <<Head(sorted)>> \o InsertSorted(Tail(sorted), x)

RECURSIVE SortFrom(_, _, _)
SortFrom(i, items, sorted) ==
  IF i > Len(items) THEN sorted ELSE SortFrom(i + 1, items, InsertSorted(sorted, items[i]))

\* assetsWithOrder.sort((lhs, rhs) => lhs.order - rhs.order).map((asset) => asset.vault)
SortedVaults(items) ==
  LET sorted == SortFrom(1, items, <<>>) IN [i \in 1..Len(sorted) |-> sorted[i].vault]

\* What get returns or throws once both enrichment lookups are in
Pending == [kind |-> "pending", list |-> <<>>, error |-> "none", at |-> 0]
Returned(list) == [kind |-> "returned", list |-> list, error |-> "none", at |-> 0]
Thrown(error, at) == [kind |-> "thrown", list |-> <<>>, error |-> error, at |-> at]

MergeResult(static, dyn, ovs, strat, earn) ==
  LET merged == MergeFrom(1, static, dyn, ovs, strat, earn)
  IN  IF merged.thrown THEN Thrown("SdkError", merged.address)
      ELSE Returned(SortedVaults(merged.items))

----------------------------------------------------------------------------
\* State machine of one get call on a cache miss

\* A getDynamic call on a cache miss: st is adapter (in the awaits up to
\* adapter.assetsDynamic: the zap-capable vault list on Ethereum, then the adapter),
\* apy (awaiting vision.apy), ok or failed; data is what the adapter answered; error
\* is what the call rejected with.  The unchunked call passes get's own address
\* filter, which the adapter answers as it did for getStatic.
DynamicCall(addrs, st) == [addrs |-> addrs, st |-> st, data |-> <<>>, error |-> "none"]

Idle == DynamicCall(<<>>, "idle")

Init ==
  /\ registry \in 0..MaxAddrs
  /\ pc = "start"
  /\ metaCall = "idle"
  /\ staticCall = "idle"
  /\ vaultMetadataOverrides = <<>>
  /\ assetsStatic = <<>>
  /\ unchunked = Idle
  /\ chunkCalls = <<>>
  /\ assetsDynamic = <<>>
  /\ stratCall = "idle"
  /\ earnCall = "idle"
  /\ outcome = Pending
  /\ log = <<>>
  /\ op = "get"
  /\ addresses = None
  /\ cached = None
  /\ chainId = 1
  /\ previous = None
  /\ NoRoute
  /\ NoFill
  /\ NoInstance

\* The cache has nothing: meta.vaults() and getStatic() are issued together
GetStart ==
  /\ pc = "start" /\ op = "get"
  /\ ~cached.defined
  /\ pc' = "metaStatic"
  /\ metaCall' = "pending"
  /\ staticCall' = "pending"
  /\ log' = log \o <<"cache", "meta", "getStatic">>
  /\ UNCHANGED <<registry, vaultMetadataOverrides, assetsStatic, unchunked, chunkCalls,
                 assetsDynamic, stratCall, earnCall, outcome>>
  /\ UNCHANGED <<inputs, instance, transaction>>

\* Promise.all([vaultMetadataOverridesPromise, getStatic]) is in: getDynamic(addresses, ...)
\* is issued, unchunked
IssueUnchunked(ready, static) ==
  IF ready
  THEN /\ pc' = "dynamic"
       /\ unchunked' = DynamicCall(Addresses(static), "adapter")
       /\ log' = Append(log, "getDynamic")
  ELSE UNCHANGED <<pc, unchunked, log>>

\* meta.vaults() resolves
MetaResolve ==
  /\ pc = "metaStatic" /\ metaCall = "pending"
  /\ \E answer \in MetaAnswers(registry) : vaultMetadataOverrides' = answer
  /\ metaCall' = "ok"
  /\ IssueUnchunked(staticCall = "ok", assetsStatic)
  /\ UNCHANGED <<registry, staticCall, assetsStatic, chunkCalls, assetsDynamic, stratCall,
                 earnCall, outcome>>
  /\ UNCHANGED <<inputs, instance, transaction>>

\* MetaReject without the .catch: the rejection reaches Promise.all and get throws
MetaRejectThrows ==
  /\ pc = "metaStatic" /\ metaCall = "pending"
  /\ metaCall' = "failed"
  /\ pc' = "done"
  /\ outcome' = Thrown("meta", 0)
  /\ UNCHANGED <<registry, staticCall, vaultMetadataOverrides, assetsStatic, unchunked,
                 chunkCalls, assetsDynamic, stratCall, earnCall, log>>
  /\ UNCHANGED <<inputs, instance, transaction>>

\* meta.vaults() rejects: .catch resolves to []
MetaReject ==
  /\ pc = "metaStatic" /\ metaCall = "pending"
  /\ vaultMetadataOverrides' = <<>>
  /\ metaCall' = "failed"
  /\ IssueUnchunked(staticCall = "ok", assetsStatic)
  /\ UNCHANGED <<registry, staticCall, assetsStatic, chunkCalls, assetsDynamic, stratCall,
                 earnCall, outcome>>
  /\ UNCHANGED <<inputs, instance, transaction>>

\* getStatic resolves with the adapter's assetsStatic
StaticResolve ==
  /\ pc = "metaStatic" /\ staticCall = "pending"
  /\ assetsStatic' = AdapterStatic(registry, addresses)
  /\ staticCall' = "ok"
  /\ IssueUnchunked(metaCall # "pending", assetsStatic')
  /\ UNCHANGED <<registry, metaCall, vaultMetadataOverrides, chunkCalls, assetsDynamic,
                 stratCall, earnCall, outcome>>
  /\ UNCHANGED <<inputs, instance, transaction>>

\* getStatic rejects: Promise.all rejects and get throws
StaticReject ==
  /\ pc = "metaStatic" /\ staticCall = "pending"
  /\ staticCall' = "failed"
  /\ pc' = "done"
  /\ outcome' = Thrown("static", 0)
  /\ UNCHANGED <<registry, metaCall, vaultMetadataOverrides, assetsStatic, unchunked,
                 chunkCalls, assetsDynamic, stratCall, earnCall, log>>
  /\ UNCHANGED <<inputs, instance, transaction>>

\* assetsDynamic is collected: both enrichment lookups are issued
IssueEnrich(dynamic) ==
  /\ assetsDynamic' = dynamic
  /\ pc' = "enrich"
  /\ stratCall' = "pending"
  /\ earnCall' = "pending"
  /\ log' = log \o <<"strategies", "earnings">>

\* IssueChunks handing every chunk's call the whole address list
IssueChunksWhole ==
  LET chunks == chunkArray(Addresses(assetsStatic), ChunkSize)
  IN  /\ chunkCalls' = [i \in 1..Len(chunks) |-> DynamicCall(Addresses(assetsStatic), "adapter")]
      /\ IF chunks = <<>>
         THEN IssueEnrich(<<>>)
         ELSE /\ pc' = "chunked"
              /\ log' = log \o [i \in 1..Len(chunks) |-> "getDynamicChunk"]
              /\ UNCHANGED <<assetsDynamic, stratCall, earnCall>>

\* catch of the unchunked call: one getDynamic per chunk of the static addresses;
\* Promise.all of no promise resolves at once
IssueChunks ==
  LET chunks == chunkArray(Addresses(assetsStatic), ChunkSize)
  IN  /\ chunkCalls' = [i \in 1..Len(chunks) |-> DynamicCall(chunks[i], "adapter")]
      /\ IF chunks = <<>>
         THEN IssueEnrich(<<>>)
         ELSE /\ pc' = "chunked"
              /\ log' = log \o [i \in 1..Len(chunks) |-> "getDynamicChunk"]
              /\ UNCHANGED <<assetsDynamic, stratCall, earnCall>>

\* adapter.assetsDynamic of the unchunked call resolves; vision.apy is asked next
UnchunkedAdapterResolve ==
  /\ pc = "dynamic" /\ unchunked.st = "adapter"
  /\ \E gone \in GoneChoices(unchunked.addrs, registry) :
       unchunked' = [unchunked EXCEPT !.st = "apy", !.data = AdapterDynamic(unchunked.addrs, gone)]
  /\ UNCHANGED <<registry, pc, metaCall, staticCall, vaultMetadataOverrides, assetsStatic,
                 chunkCalls, assetsDynamic, stratCall, earnCall, outcome, log>>
  /\ UNCHANGED <<inputs, instance, transaction>>

\* UnchunkedAdapterReject trying the unchunked call a second time before it chunks
UnchunkedAdapterRejectRetry ==
  /\ pc = "dynamic" /\ unchunked.st = "adapter"
  /\ IF Cardinality({k \in 1..Len(log) : log[k] = "getDynamic"}) < 2
     THEN /\ unchunked' = unchunked
          /\ log' = Append(log, "getDynamic")
          /\ UNCHANGED <<pc, chunkCalls, assetsDynamic, stratCall, earnCall>>
     ELSE /\ unchunked' = [unchunked EXCEPT !.st = "failed", !.error = "adapter"]
          /\ IssueChunks
  /\ UNCHANGED <<registry, metaCall, staticCall, vaultMetadataOverrides, assetsStatic, outcome>>
  /\ UNCHANGED <<inputs, instance, transaction>>

\* adapter.assetsDynamic of the unchunked call rejects: getDynamic rejects, get's catch runs
UnchunkedAdapterReject ==
  /\ pc = "dynamic" /\ unchunked.st = "adapter"
  /\ unchunked' = [unchunked EXCEPT !.st = "failed", !.error = "adapter"]
  /\ IssueChunks
  /\ UNCHANGED <<registry, metaCall, staticCall, vaultMetadataOverrides, assetsStatic, outcome>>
  /\ UNCHANGED <<inputs, instance, transaction>>

\* vision.apy of the unchunked call resolves: getDynamic resolves
UnchunkedApyResolve ==
  /\ pc = "dynamic" /\ unchunked.st = "apy"
  /\ unchunked' = [unchunked EXCEPT !.st = "ok"]
  /\ IssueEnrich(WithApy(unchunked.data))
  /\ UNCHANGED <<registry, metaCall, staticCall, vaultMetadataOverrides, assetsStatic,
                 chunkCalls, outcome>>
  /\ UNCHANGED <<inputs, instance, transaction>>

\* vision.apy of the unchunked call rejects: nothing in getDynamic catches it
UnchunkedApyReject ==
  /\ pc = "dynamic" /\ unchunked.st = "apy"
  /\ unchunked' = [unchunked EXCEPT !.st = "failed", !.error = "apy"]
  /\ IssueChunks
  /\ UNCHANGED <<registry, metaCall, staticCall, vaultMetadataOverrides, assetsStatic, outcome>>
  /\ UNCHANGED <<inputs, instance, transaction>>

\* adapter.assetsDynamic of chunk i resolves
ChunkAdapterResolve(i) ==
  /\ pc = "chunked" /\ chunkCalls[i].st = "adapter"
  /\ \E gone \in GoneChoices(chunkCalls[i].addrs, registry) :
       chunkCalls' = [chunkCalls EXCEPT ![i].st = "apy",
                                        ![i].data = AdapterDynamic(chunkCalls[i].addrs, gone)]
  /\ UNCHANGED <<registry, pc, metaCall, staticCall, vaultMetadataOverrides, assetsStatic,
                 unchunked, assetsDynamic, stratCall, earnCall, outcome, log>>
  /\ UNCHANGED <<inputs, instance, transaction>>

\* ChunkReject with the rejection caught per chunk and read as an empty answer
ChunkRejectSwallow(i, st, error) ==
  /\ pc = "chunked" /\ chunkCalls[i].st = st
  /\ chunkCalls' = [chunkCalls EXCEPT ![i].st = "failed", ![i].error = error, ![i].data = <<>>]
  /\ IF \A j \in 1..Len(chunkCalls) : chunkCalls'[j].st \in {"ok", "failed"}
     THEN /\ assetsDynamic' = Flat([j \in 1..Len(chunkCalls) |-> chunkCalls'[j].data])
          /\ pc' = "enrich"
          /\ stratCall' = "pending"
          /\ earnCall' = "pending"
          /\ log' = log \o <<"strategies", "earnings">>
     ELSE UNCHANGED <<pc, assetsDynamic, stratCall, earnCall, log>>
  /\ UNCHANGED <<registry, metaCall, staticCall, vaultMetadataOverrides, assetsStatic,
                 unchunked, outcome>>
  /\ UNCHANGED <<inputs, instance, transaction>>

\* A chunk's getDynamic rejects: Promise.all rejects with it and get throws it
ChunkReject(i, st, error) ==
  /\ pc = "chunked" /\ chunkCalls[i].st = st
  /\ chunkCalls' = [chunkCalls EXCEPT ![i].st = "failed", ![i].error = error]
  /\ pc' = "done"
  /\ outcome' = Thrown(error, i)
  /\ UNCHANGED <<registry, metaCall, staticCall, vaultMetadataOverrides, assetsStatic,
                 unchunked, assetsDynamic, stratCall, earnCall, log>>
  /\ UNCHANGED <<inputs, instance, transaction>>

ChunkAdapterReject(i) == ChunkReject(i, "adapter", "adapter")

ChunkApyReject(i) == ChunkReject(i, "apy", "apy")

\* vision.apy of chunk i resolves; with the last chunk in, Promise.all resolves and
\* the chunks are flattened in chunk order
ChunkApyResolve(i) ==
  /\ pc = "chunked" /\ chunkCalls[i].st = "apy"
  /\ chunkCalls' = [chunkCalls EXCEPT ![i].st = "ok", ![i].data = WithApy(chunkCalls[i].data)]
  /\ IF \A j \in 1..Len(chunkCalls) : chunkCalls'[j].st = "ok"
     THEN IssueEnrich(Flat([j \in 1..Len(chunkCalls) |-> chunkCalls'[j].data]))
     ELSE UNCHANGED <<pc, assetsDynamic, stratCall, earnCall, log>>
  /\ UNCHANGED <<registry, metaCall, staticCall, vaultMetadataOverrides, assetsStatic,
                 unchunked, outcome>>
  /\ UNCHANGED <<inputs, instance, transaction>>

\* get's local strategiesMetadata: the answer, or [] from .catch (and before the call)
strategiesMetadata(st) ==
  IF st = "ok" THEN StrategiesAnswer(Addresses(assetsDynamic)) ELSE <<>>

\* get's local assetsHistoricEarnings: the answer, or [] from .catch (and before the call)
assetsHistoricEarnings(st) == IF st = "ok" THEN EarningsAnswer(registry) ELSE <<>>

\* Finish reading assetsHistoricEarnings as it stands when strategiesMetadata arrives:
\* empty unless the earnings were in first
FinishRace(ready) ==
  IF ready
  THEN /\ pc' = "done"
       /\ \E strat \in {strategiesMetadata(stratCall')},
             earn \in {IF earnCall' # earnCall THEN <<>> ELSE assetsHistoricEarnings(earnCall')} :
            outcome' = MergeResult(assetsStatic, assetsDynamic, vaultMetadataOverrides, strat, earn)
  ELSE UNCHANGED <<pc, outcome>>

\* Promise.all([strategiesMetadataPromise, assetsHistoricEarningsPromise]) is in:
\* the merge loop and the sort run, and get returns or throws
Finish(ready) ==
  IF ready
  THEN /\ pc' = "done"
       /\ \E strat \in {strategiesMetadata(stratCall')}, earn \in {assetsHistoricEarnings(earnCall')} :
            outcome' = MergeResult(assetsStatic, assetsDynamic, vaultMetadataOverrides, strat, earn)
  ELSE UNCHANGED <<pc, outcome>>

\* StrategiesSettle running the merge loop without waiting for the earnings
StrategiesSettleEarly(st) ==
  /\ pc = "enrich" /\ stratCall = "pending"
  /\ stratCall' = st
  /\ UNCHANGED earnCall
  /\ Finish(TRUE)
  /\ UNCHANGED <<registry, metaCall, staticCall, vaultMetadataOverrides, assetsStatic,
                 unchunked, chunkCalls, assetsDynamic, log>>
  /\ UNCHANGED <<inputs, instance, transaction>>

\* vaultsStrategiesMetadata resolves, or rejects and .catch resolves to []
StrategiesSettle(st) ==
  /\ pc = "enrich" /\ stratCall = "pending"
  /\ stratCall' = st
  /\ UNCHANGED earnCall
  /\ Finish(earnCall # "pending")
  /\ UNCHANGED <<registry, metaCall, staticCall, vaultMetadataOverrides, assetsStatic,
                 unchunked, chunkCalls, assetsDynamic, log>>
  /\ UNCHANGED <<inputs, instance, transaction>>

StrategiesResolve == StrategiesSettle("ok")

StrategiesReject == StrategiesSettle("failed")

\* assetsHistoricEarnings resolves, or rejects and .catch resolves to []
EarningsSettle(st) ==
  /\ pc = "enrich" /\ earnCall = "pending"
  /\ earnCall' = st
  /\ UNCHANGED stratCall
  /\ Finish(stratCall # "pending")
  /\ UNCHANGED <<registry, metaCall, staticCall, vaultMetadataOverrides, assetsStatic,
                 unchunked, chunkCalls, assetsDynamic, log>>
  /\ UNCHANGED <<inputs, instance, transaction>>

EarningsResolve == EarningsSettle("ok")

EarningsReject == EarningsSettle("failed")

Next ==
  \/ GetStart
  \/ MetaResolve
  \/ MetaReject
  \/ StaticResolve
  \/ StaticReject
  \/ UnchunkedAdapterResolve
  \/ UnchunkedAdapterReject
  \/ UnchunkedApyResolve
  \/ UnchunkedApyReject
  \/ \E i \in 1..Len(chunkCalls) : ChunkAdapterResolve(i)
  \/ \E i \in 1..Len(chunkCalls) : ChunkAdapterReject(i)
  \/ \E i \in 1..Len(chunkCalls) : ChunkApyResolve(i)
  \/ \E i \in 1..Len(chunkCalls) : ChunkApyReject(i)
  \/ StrategiesResolve
  \/ StrategiesReject
  \/ EarningsResolve
  \/ EarningsReject

Spec == Init /\ [][Next]_vars

----------------------------------------------------------------------------
\* The caches of get, getDynamic and tokens

\* isEthereum(chainId) and isFantom(chainId) of ../chain
isEthereum(chain) == chain \in {1, 1337}

isFantom(chain) == chain = 250

\* Ethereum, Fantom and Arbitrum
ChainIds == {1, 250, 42161}

\* A record of a cached list; the cache holds any list, in any order, also of vaults
\* the registry does not have
CachedRecord(a) == [address |-> a, name |-> "cached"]

CachedLists == {[i \in 1..Len(s) |-> CachedRecord(s[i])] : s \in Arrays(1..MaxCached, MaxCached)}

\* cached.filter((vault) => addresses.includes(vault.address)) when addresses is given
\* (an empty array is given too), cached itself when it is not
Filtered(list, filter) ==
  IF filter.defined THEN SelectSeq(list, LAMBDA v : Includes(filter.value, v.address)) ELSE list

\* A call of get, getDynamic or tokens: tokens takes no address filter
CacheInit ==
  /\ registry \in 0..(MaxCached - 1)
  /\ pc = "start"
  /\ metaCall = "idle"
  /\ staticCall = "idle"
  /\ vaultMetadataOverrides = <<>>
  /\ assetsStatic = <<>>
  /\ unchunked = Idle
  /\ chunkCalls = <<>>
  /\ assetsDynamic = <<>>
  /\ stratCall = "idle"
  /\ earnCall = "idle"
  /\ outcome = Pending
  /\ log = <<>>
  /\ op \in {"get", "getDynamic", "tokens"}
  /\ addresses \in {None} \cup {Some(s) : s \in Arrays(1..MaxCached, MaxCached)}
  /\ op = "tokens" => addresses = None
  /\ cached \in {None} \cup {Some(list) : list \in CachedLists}
  /\ chainId \in ChainIds
  /\ previous = None
  /\ NoRoute
  /\ NoFill
  /\ NoInstance

\* GetCached returning the whole cached list whatever the filter
GetCachedUnfiltered ==
  /\ pc = "start" /\ op = "get"
  /\ cached.defined
  /\ log' = Append(log, "cache")
  /\ outcome' = Returned(cached.value)
  /\ pc' = "done"
  /\ UNCHANGED <<aggregation, inputs, instance, transaction>>

\* get: cachedFetcherGet.fetch() has a list, and get returns it
GetCached ==
  /\ pc = "start" /\ op = "get"
  /\ cached.defined
  /\ log' = Append(log, "cache")
  /\ outcome' = Returned(Filtered(cached.value, addresses))
  /\ pc' = "done"
  /\ UNCHANGED <<aggregation, inputs, instance, transaction>>

\* getDynamic: cachedFetcherGetDynamic.fetch() has a list, and getDynamic returns it
GetDynamicCached ==
  /\ pc = "start" /\ op = "getDynamic"
  /\ cached.defined
  /\ log' = Append(log, "cache")
  /\ outcome' = Returned(Filtered(cached.value, addresses))
  /\ pc' = "done"
  /\ UNCHANGED <<aggregation, inputs, instance, transaction>>

\* getDynamic has its metadataOverrides: the zap-capable vault list is asked on
\* Ethereum, the adapter's assetsDynamic(addresses) elsewhere; `issued` is what was
\* issued before in the same step
DynAfterMeta(issued) ==
  IF isEthereum(chainId)
  THEN /\ pc' = "dynZapper"
       /\ log' = log \o issued \o <<"zapper">>
       /\ UNCHANGED unchunked
  ELSE /\ pc' = "dynAdapter"
       /\ log' = log \o issued \o <<"assetsDynamic">>
       /\ unchunked' = DynamicCall(Addresses(AdapterStatic(registry, addresses)), "adapter")

\* getDynamic called on its own, the cache has nothing: meta.vaults() is asked unless
\* the caller passed vaultMetadataOverrides
GetDynamicStart ==
  /\ pc = "start" /\ op = "getDynamic"
  /\ ~cached.defined
  /\ \E given \in {<<>>} \cup {<<answer>> : answer \in MetaAnswers(registry)} :
       IF given # <<>>
       THEN /\ vaultMetadataOverrides' = given[1]
            /\ UNCHANGED metaCall
            /\ DynAfterMeta(<<"cache">>)
       ELSE /\ pc' = "dynMeta"
            /\ metaCall' = "pending"
            /\ log' = log \o <<"cache", "meta">>
            /\ UNCHANGED <<vaultMetadataOverrides, unchunked>>
  /\ UNCHANGED <<registry, staticCall, assetsStatic, chunkCalls, assetsDynamic, stratCall,
                 earnCall, outcome, inputs, instance, transaction>>

\* meta.vaults() settles: with its answer, or with [] from .catch
DynMetaSettle(st) ==
  /\ pc = "dynMeta" /\ metaCall = "pending"
  /\ metaCall' = st
  /\ \E answer \in (IF st = "ok" THEN MetaAnswers(registry) ELSE {<<>>}) :
       vaultMetadataOverrides' = answer
  /\ DynAfterMeta(<<>>)
  /\ UNCHANGED <<registry, staticCall, assetsStatic, chunkCalls, assetsDynamic, stratCall,
                 earnCall, outcome, inputs, instance, transaction>>

DynMetaResolve == DynMetaSettle("ok")

DynMetaReject == DynMetaSettle("failed")

\* zapper.supportedVaultAddresses() resolves: the adapter is asked
DynZapperResolve ==
  /\ pc = "dynZapper"
  /\ pc' = "dynAdapter"
  /\ log' = Append(log, "assetsDynamic")
  /\ unchunked' = DynamicCall(Addresses(AdapterStatic(registry, addresses)), "adapter")
  /\ UNCHANGED <<registry, metaCall, staticCall, vaultMetadataOverrides, assetsStatic,
                 chunkCalls, assetsDynamic, stratCall, earnCall, outcome, inputs, instance, transaction>>

\* An await of getDynamic rejects outside any catch: getDynamic throws
DynThrow(at, error) ==
  /\ pc = at
  /\ pc' = "done"
  /\ outcome' = Thrown(error, 0)
  /\ unchunked' = [unchunked EXCEPT !.st = "failed", !.error = error]
  /\ UNCHANGED <<registry, metaCall, staticCall, vaultMetadataOverrides, assetsStatic,
                 chunkCalls, assetsDynamic, stratCall, earnCall, log, inputs, instance, transaction>>

DynZapperReject == DynThrow("dynZapper", "zapper")

DynAdapterReject == DynThrow("dynAdapter", "adapter")

DynApyReject == DynThrow("dynApy", "apy")

\* adapter.assetsDynamic resolves: vision.apy is asked
DynAdapterResolve ==
  /\ pc = "dynAdapter"
  /\ pc' = "dynApy"
  /\ \E gone \in GoneChoices(unchunked.addrs, registry) :
       unchunked' = [unchunked EXCEPT !.st = "apy", !.data = AdapterDynamic(unchunked.addrs, gone)]
  /\ log' = Append(log, "apy")
  /\ UNCHANGED <<registry, metaCall, staticCall, vaultMetadataOverrides, assetsStatic,
                 chunkCalls, assetsDynamic, stratCall, earnCall, outcome, inputs, instance, transaction>>

\* vision.apy resolves: getDynamic returns the adapter's records with their APY
DynApyResolve ==
  /\ pc = "dynApy"
  /\ pc' = "done"
  /\ unchunked' = [unchunked EXCEPT !.st = "ok"]
  /\ outcome' = Returned(WithApy(unchunked.data))
  /\ UNCHANGED <<registry, metaCall, staticCall, vaultMetadataOverrides, assetsStatic,
                 chunkCalls, assetsDynamic, stratCall, earnCall, log, inputs, instance, transaction>>

\* tokens: cachedFetcherTokens.fetch() has a list, and tokens returns it as it is
TokensCached ==
  /\ pc = "start" /\ op = "tokens"
  /\ cached.defined
  /\ log' = Append(log, "cache")
  /\ outcome' = Returned(cached.value)
  /\ pc' = "done"
  /\ UNCHANGED <<aggregation, inputs, instance, transaction>>

\* tokens, the cache has nothing: services.asset.ready is awaited
TokensStart ==
  /\ pc = "start" /\ op = "tokens"
  /\ ~cached.defined
  /\ pc' = "tokReady"
  /\ log' = log \o <<"cache", "asset.ready">>
  /\ UNCHANGED <<aggregation, outcome, inputs, instance, transaction>>

\* The Token records tokens builds: one per underlying token the adapter lists
TokenRecords(n) == [i \in 1..n |-> [address |-> i, name |-> "token"]]

\* An await of tokens resolves.  After asset.ready comes adapter.tokens; after it
\* helper.tokens and tokens.metadata, awaited together; after them one
\* oracle.getPriceUsdc per token, awaited together (none for no token); then tokens
\* returns
TokensResolve ==
  /\ pc \in {"tokReady", "tokAdapter", "tokHelper", "tokOracle"}
  /\ CASE pc = "tokReady" ->
            /\ pc' = "tokAdapter"
            /\ log' = Append(log, "adapter.tokens")
            /\ UNCHANGED outcome
       [] pc = "tokAdapter" ->
            /\ pc' = "tokHelper"
            /\ log' = log \o <<"helper.tokens", "tokens.metadata">>
            /\ UNCHANGED outcome
       [] pc = "tokHelper" /\ registry > 0 ->
            /\ pc' = "tokOracle"
            /\ log' = log \o [i \in 1..registry |-> "oracle"]
            /\ UNCHANGED outcome
       [] OTHER ->
            /\ pc' = "done"
            /\ outcome' = Returned(TokenRecords(registry))
            /\ UNCHANGED log
  /\ UNCHANGED <<aggregation, inputs, instance, transaction>>

\* An await of tokens rejects: nothing in tokens catches it
TokensReject ==
  /\ pc \in {"tokReady", "tokAdapter", "tokHelper", "tokOracle"}
  /\ pc' = "done"
  /\ outcome' = Thrown(pc, 0)
  /\ UNCHANGED <<aggregation, log, inputs, instance, transaction>>

CacheNext ==
  \/ GetCached
  \/ GetDynamicCached
  \/ GetDynamicStart
  \/ DynMetaResolve
  \/ DynMetaReject
  \/ DynZapperResolve
  \/ DynZapperReject
  \/ DynAdapterResolve
  \/ DynAdapterReject
  \/ DynApyResolve
  \/ DynApyReject
  \/ TokensCached
  \/ TokensStart
  \/ TokensResolve
  \/ TokensReject
  \/ Next

CacheSpec == CacheInit /\ [][CacheNext]_vars

----------------------------------------------------------------------------
\* get called twice

\* Registries of up to MaxTwice vaults are explored for two calls in a row.
MaxTwice == 1

\* What the collaborators answered the call: the state of every call it issued
Responses ==
  [metaCall |-> metaCall, vaultMetadataOverrides |-> vaultMetadataOverrides,
   staticCall |-> staticCall, unchunked |-> unchunked, chunkCalls |-> chunkCalls,
   stratCall |-> stratCall, earnCall |-> earnCall]

\* The answer of a lookup that was asked and has settled agrees with the answer it had
\* in the call before, when it had settled there
SameSettled(now, before) == now \in {"ok", "failed"} /\ before \in {"ok", "failed"} => now = before

\* What adapter.assetsDynamic answered a getDynamic call: nothing yet, a rejection, or
\* the addresses of its records
AdapterAnswer(call) ==
  IF call.st \in {"idle", "adapter"} THEN <<"pending">>
  ELSE IF call.st = "failed" /\ call.error = "adapter" THEN <<"rejected">>
  ELSE <<"resolved", Addresses(call.data)>>

\* What vision.apy answered a getDynamic call
ApyAnswer(call) ==
  IF call.st = "ok" THEN "resolved"
  ELSE IF call.st = "failed" /\ call.error = "apy" THEN "rejected"
  ELSE "pending"

SameDynamic(now, before) ==
  /\ AdapterAnswer(now)[1] # "pending" /\ AdapterAnswer(before)[1] # "pending"
       => AdapterAnswer(now) = AdapterAnswer(before)
  /\ ApyAnswer(now) # "pending" /\ ApyAnswer(before) # "pending" => ApyAnswer(now) = ApyAnswer(before)

\* Every collaborator answers the second call as it answered the first
SameResponses ==
  previous.defined =>
    LET before == previous.value.responses
    IN  /\ SameSettled(metaCall, before.metaCall)
        /\ metaCall = "ok" /\ before.metaCall = "ok"
             => vaultMetadataOverrides = before.vaultMetadataOverrides
        /\ SameSettled(staticCall, before.staticCall)
        /\ SameDynamic(unchunked, before.unchunked)
        /\ \A i \in 1..Min(Len(chunkCalls), Len(before.chunkCalls)) :
             SameDynamic(chunkCalls[i], before.chunkCalls[i])
        /\ SameSettled(stratCall, before.stratCall)
        /\ SameSettled(earnCall, before.earnCall)

TwiceInit ==
  /\ registry \in 0..MaxTwice
  /\ pc = "start"
  /\ metaCall = "idle"
  /\ staticCall = "idle"
  /\ vaultMetadataOverrides = <<>>
  /\ assetsStatic = <<>>
  /\ unchunked = Idle
  /\ chunkCalls = <<>>
  /\ assetsDynamic = <<>>
  /\ stratCall = "idle"
  /\ earnCall = "idle"
  /\ outcome = Pending
  /\ log = <<>>
  /\ op = "get"
  /\ addresses \in {None} \cup {Some(s) : s \in Arrays(1..MaxTwice, MaxTwice)}
  /\ cached \in {None} \cup {Some(list) : list \in {<<>>, <<CachedRecord(1)>>}}
  /\ chainId = 1
  /\ previous = None
  /\ NoRoute
  /\ NoFill
  /\ NoInstance

\* The first get is over: get is called again with the same filter, on the same
\* instance and the same cache; get keeps nothing between calls but its locals
GetAgain ==
  /\ pc = "done" /\ op = "get"
  /\ ~previous.defined
  /\ previous' = Some([responses |-> Responses, outcome |-> outcome])
  /\ pc' = "start"
  /\ metaCall' = "idle"
  /\ staticCall' = "idle"
  /\ vaultMetadataOverrides' = <<>>
  /\ assetsStatic' = <<>>
  /\ unchunked' = Idle
  /\ chunkCalls' = <<>>
  /\ assetsDynamic' = <<>>
  /\ stratCall' = "idle"
  /\ earnCall' = "idle"
  /\ outcome' = Pending
  /\ log' = <<>>
  /\ UNCHANGED <<registry, op, addresses, cached, chainId, transaction,
                 vault, token, vaultStatic, partner, addressProvider, slippage,
                 callerOverrides, allowList, metadata, override, instance>>

\* The steps of both calls; the collaborators answer the second as they did the first
TwiceNext ==
  \/ GetCached
  \/ GetAgain
  \/ Next /\ SameResponses'

TwiceSpec == TwiceInit /\ [][TwiceNext]_vars

----------------------------------------------------------------------------
\* Route resolution: getDepositContractAddress and getWithdrawContractAddress

\* PickleJars of ../services/partners/pickle: "jar" is one of them, "vault" is not
PickleJars == {"jar"}

Vaults == {"jar", "vault"}

\* EthAddress is the native asset; a vault's underlying token is an ERC-20
Tokens == {"eth", "dai", "usdc"}

\* isNativeToken(address) of ../helpers
isNativeToken(address) == address = "eth"

\* The wido router as getDepositContractAddress spells it
DepositWidoRouter == "0x7Bbd6348db83C2fb3633Eebb70367E1AEc258764"

\* The wido router as getWithdrawContractAddress spells it
WithdrawWidoRouter == "0x7Bbd6348db83C2fb3633Eebb70367E1AEc258764"

\* What addressProvider.addressById(id) resolves to: one address per ContractAddressId
AddressById(id) ==
  [pickleZapIn |-> "0xPickleZapIn", zapperZapIn |-> "0xZapperZapIn", zapperZapOut |-> "0xZapperZapOut"][id]

\* What getStatic([vault]) may settle with: a rejection, no record, or the vault's
\* record with its underlying token
StaticAnswers(v) ==
  {Rejects, Resolves(<<>>)} \cup {Resolves(<<[address |-> v, token |-> u]>>) : u \in Tokens \ {"eth"}}

Partners == {NoPartner} \cup {Partner(allowed, address) : allowed \in BOOLEAN, address \in {"", "partner"}}

\* What an operation returned when it is not a list
ReturnedValue(v) == [kind |-> "returned", value |-> v]

isZappingIntoPickleJar(v) == v \in PickleJars

\* !!this.yearn.services.partner?.isAllowed(vault)
shouldUsePartnerService(v) == partner.defined /\ partner.allowed

\* The operation returns v
Return(v) ==
  /\ pc' = "done"
  /\ outcome' = ReturnedValue(v)
  /\ UNCHANGED log

\* The operation throws error
Throw(error) ==
  /\ pc' = "done"
  /\ outcome' = Thrown(error, 0)
  /\ UNCHANGED log

\* The operation awaits call
Await(at, call) ==
  /\ pc' = at
  /\ log' = Append(log, call)
  /\ UNCHANGED outcome

\* const [vault] = await this.getStatic([vaultAddress]) has settled: getStatic
\* rejected, or reading .token of no record throws
StaticError ==
  IF vaultStatic.settles = "rejected" THEN "static"
  ELSE IF vaultStatic.value = <<>> THEN "TypeError"
  ELSE "none"

\* vault.token === tokenAddress
isUnderlyingToken == vaultStatic.value[1].token = token

\* ContractAddressId of line 441
zapContractIdSwapped(willZapToPickleJar) == IF willZapToPickleJar THEN "zapperZapIn" ELSE "pickleZapIn"

zapContractId(willZapToPickleJar) == IF willZapToPickleJar THEN "pickleZapIn" ELSE "zapperZapIn"

\* DepositRouteFrom asking the address registry on Fantom as on any chain
DepositRouteFromRegistry(willDepositUnderlyingToken) ==
  IF willDepositUnderlyingToken /\ shouldUsePartnerService(vault)
  THEN Await("partner", "partner.address")
  ELSE IF willDepositUnderlyingToken
  THEN Return(vault)
  ELSE Await("registry", "addressById")

\* getDepositContractAddress from line 424, with willZapToPickleJar and
\* willDepositUnderlyingToken known
DepositRouteFrom(willDepositUnderlyingToken) ==
  IF willDepositUnderlyingToken /\ shouldUsePartnerService(vault)
  THEN Await("partner", "partner.address")
  ELSE IF willDepositUnderlyingToken
  THEN Return(vault)
  ELSE IF isFantom(chainId)
  THEN Return(DepositWidoRouter)
  ELSE Await("registry", "addressById")

\* DepositRouteStart looking at the jar set before the native token
DepositRouteStartJarFirst ==
  /\ pc = "start" /\ op = "getDepositContractAddress"
  /\ IF isZappingIntoPickleJar(vault)
     THEN DepositRouteFrom(FALSE)
     ELSE IF isNativeToken(token)
     THEN Return(vault)
     ELSE Await("static", "getStatic")
  /\ UNCHANGED <<aggregation, inputs, instance, transaction>>

\* getDepositContractAddress up to its first await
DepositRouteStart ==
  /\ pc = "start" /\ op = "getDepositContractAddress"
  /\ IF isNativeToken(token)
     THEN Return(vault)
     ELSE IF isZappingIntoPickleJar(vault)
     THEN DepositRouteFrom(FALSE)
     ELSE Await("static", "getStatic")
  /\ UNCHANGED <<aggregation, inputs, instance, transaction>>

\* isUnderlyingToken's getStatic settles
DepositRouteStatic ==
  /\ pc = "static" /\ op = "getDepositContractAddress"
  /\ IF StaticError # "none"
     THEN Throw(StaticError)
     ELSE DepositRouteFrom(isUnderlyingToken)
  /\ UNCHANGED <<aggregation, inputs, instance, transaction>>

\* DepositRoutePartner falling back to the vault when no partner address is configured
DepositRoutePartnerFallback ==
  /\ pc = "partner" /\ op = "getDepositContractAddress"
  /\ IF partner.address = ""
     THEN Return(vault)
     ELSE Return(partner.address)
  /\ UNCHANGED <<aggregation, inputs, instance, transaction>>

\* await this.yearn.services.partner?.address is in
DepositRoutePartner ==
  /\ pc = "partner" /\ op = "getDepositContractAddress"
  /\ IF partner.address = ""
     THEN Throw("SdkError")
     ELSE Return(partner.address)
  /\ UNCHANGED <<aggregation, inputs, instance, transaction>>

\* addressProvider.addressById(zapContractId) settles
DepositRouteRegistry ==
  /\ pc = "registry" /\ op = "getDepositContractAddress"
  /\ IF addressProvider = "rejects"
     THEN Throw("addressProvider")
     ELSE Return(AddressById(zapContractId(isZappingIntoPickleJar(vault))))
  /\ UNCHANGED <<aggregation, inputs, instance, transaction>>

\* getWithdrawContractAddress up to its first await
WithdrawRouteStart ==
  /\ pc = "start" /\ op = "getWithdrawContractAddress"
  /\ Await("static", "getStatic")
  /\ UNCHANGED <<aggregation, inputs, instance, transaction>>

\* WithdrawRouteStatic sending a jar vault's withdrawal to the pickle zap
WithdrawRouteStaticJar ==
  /\ pc = "static" /\ op = "getWithdrawContractAddress"
  /\ IF StaticError # "none"
     THEN Throw(StaticError)
     ELSE IF isUnderlyingToken /\ ~isZappingIntoPickleJar(vault)
     THEN Return(vault)
     ELSE IF isFantom(chainId)
     THEN Return(WithdrawWidoRouter)
     ELSE Await("registry", "addressById")
  /\ UNCHANGED <<aggregation, inputs, instance, transaction>>

\* isUnderlyingToken's getStatic settles
WithdrawRouteStatic ==
  /\ pc = "static" /\ op = "getWithdrawContractAddress"
  /\ IF StaticError # "none"
     THEN Throw(StaticError)
     ELSE IF isUnderlyingToken
     THEN Return(vault)
     ELSE IF isFantom(chainId)
     THEN Return(WithdrawWidoRouter)
     ELSE Await("registry", "addressById")
  /\ UNCHANGED <<aggregation, inputs, instance, transaction>>

\* addressProvider.addressById(ContractAddressId.zapperZapOut) settles
WithdrawRouteRegistry ==
  /\ pc = "registry" /\ op = "getWithdrawContractAddress"
  /\ IF addressProvider = "rejects"
     THEN Throw("addressProvider")
     ELSE Return(AddressById("zapperZapOut"))
  /\ UNCHANGED <<aggregation, inputs, instance, transaction>>

\* No aggregation call is under way
AggregationIdle ==
  /\ registry = 0
  /\ metaCall = "idle"
  /\ staticCall = "idle"
  /\ vaultMetadataOverrides = <<>>
  /\ assetsStatic = <<>>
  /\ unchunked = Idle
  /\ chunkCalls = <<>>
  /\ assetsDynamic = <<>>
  /\ stratCall = "idle"
  /\ earnCall = "idle"

\* A route is asked for any vault and token, on any chain, with any partner service
RouteInit ==
  /\ AggregationIdle
  /\ pc = "start"
  /\ outcome = Pending
  /\ log = <<>>
  /\ op \in {"getDepositContractAddress", "getWithdrawContractAddress"}
  /\ addresses = None
  /\ cached = None
  /\ previous = None
  /\ chainId \in ChainIds
  /\ vault \in Vaults
  /\ token \in Tokens
  /\ vaultStatic \in StaticAnswers(vault)
  /\ partner \in Partners
  /\ addressProvider \in {"resolves", "rejects"}
  /\ NoTransaction
  /\ NoFill
  /\ NoInstance

RouteNext ==
  \/ DepositRouteStart
  \/ DepositRouteStatic
  \/ DepositRoutePartner
  \/ DepositRouteRegistry
  \/ WithdrawRouteStart
  \/ WithdrawRouteStatic
  \/ WithdrawRouteRegistry

RouteSpec == RouteInit /\ [][RouteNext]_vars

----------------------------------------------------------------------------
\* Transactions: deposit and withdraw, down to the signer

\* A gas price of the number 0: given by the caller, and falsy
ZeroGasPrice == "0"

\* The overrides objects a caller may pass
GasChoices ==
  {Gas(g, f, p) : g \in {Undefined, ZeroGasPrice, "callerGasPrice"}, f \in {Undefined, "callerMaxFee"},
                  p \in {Undefined, "callerMaxPriorityFee"}}

\* options.slippage: not given, or given (zero is given too)
Slippages == {Undefined, "0", "0.01"}

\* The code of the error a call rejects with: -32602, or any other (or none)
Codes == {"-32602", "other"}

\* A transaction as sendTransaction gets it: the route it was built on, the attempt it
\* is sent in, its gas fields, and what validateTx has said of it
Tx(kind, nth, gas) ==
  [route |-> kind, attempt |-> nth, gasPrice |-> gas.gasPrice, maxFeePerGas |-> gas.maxFeePerGas,
   maxPriorityFeePerGas |-> gas.maxPriorityFeePerGas, validation |-> "pending"]

\* TransactionService.sendTransaction(tx) up to its first collaborator call: the
\* allow-list service if there is one, the signer if not; `calls` were issued before
\* in the same step
sendTransaction(tx, calls) ==
  IF allowList
  THEN /\ sent' = Append(sent, tx)
       /\ pc' = "validate"
       /\ log' = log \o calls \o <<"validateCalldata">>
  ELSE /\ sent' = Append(sent, [tx EXCEPT !.validation = "success"])
       /\ pc' = "send"
       /\ log' = log \o calls \o <<"getSigner", "signer.sendTransaction">>

\* The call that populates the direct transaction: the partner service's, or the
\* vault contract's
PopulateCall ==
  IF op = "withdraw" THEN "populateTransaction.withdraw"
  ELSE IF shouldUsePartnerService(vault) THEN "partner.populateDepositTransaction"
  ELSE "populateTransaction.deposit"

\* executeVaultContractTransaction up to the first await of makeTransaction
executeVaultContractTransaction(calls) ==
  /\ route' = Route("direct", "none")
  /\ attempt' = 1
  /\ originalGasPrice' = overrides.gasPrice
  /\ overrides' = [overrides EXCEPT !.gasPrice = Undefined]
  /\ pc' = "populate"
  /\ log' = log \o calls \o <<PopulateCall>>
  /\ UNCHANGED <<outcome, sent, rejected>>

\* The gasPrice of the transactionRequest draft: zapOut's carries the quote's, zapIn's
\* has none
RequestGasPrice == IF op = "withdraw" THEN "quoteGasPrice" ELSE Undefined

\* A field of { ...transactionRequest, ...overrides }
Spread(request, given) == IF given = Undefined THEN request ELSE given

\* FirstZapperGas with the gasPrice of the spread left in
FirstZapperGasKept ==
  Gas(Spread(RequestGasPrice, overrides.gasPrice), Spread(Undefined, overrides.maxFeePerGas),
      Spread(Undefined, overrides.maxPriorityFeePerGas))

\* const combinedParams = { ...transactionRequest, ...overrides } with gasPrice cleared
FirstZapperGas ==
  Gas(Undefined, Spread(Undefined, overrides.maxFeePerGas),
      Spread(Undefined, overrides.maxPriorityFeePerGas))

\* overrides.gasPrice || fallbackGasPrice, the fee fields cleared
SecondZapperGas ==
  Gas(IF overrides.gasPrice \in {Undefined, ZeroGasPrice} THEN "quoteGasPrice" ELSE overrides.gasPrice,
      Undefined, Undefined)

\* executeZapperTransaction up to the first await of sendTransaction
executeZapperTransaction ==
  /\ attempt' = 1
  /\ sendTransaction(Tx("zapper", 1, FirstZapperGas), <<>>)
  /\ UNCHANGED <<outcome, overrides, route, originalGasPrice, rejected>>

\* The transaction of wido.deposit and wido.withdraw carries no gas field and is sent
\* as it is
sendWido ==
  /\ attempt' = 1
  /\ sendTransaction(Tx("wido", 1, Gas(Undefined, Undefined, Undefined)), <<>>)
  /\ UNCHANGED <<outcome, overrides, route, originalGasPrice, rejected>>

\* The operation throws; what it has sent stays sent
ThrowTx(error, calls) ==
  /\ pc' = "done"
  /\ outcome' = Thrown(error, 0)
  /\ log' = log \o calls
  /\ UNCHANGED transaction

\* Catch keeping the caller's fee fields in the second attempt
CatchKeepFees(code) ==
  /\ rejected' = Append(rejected, code)
  /\ IF code = "-32602" /\ attempt = 1 /\ route.kind = "direct"
     THEN /\ attempt' = 2
          /\ overrides' = [overrides EXCEPT !.gasPrice = originalGasPrice]
          /\ pc' = "populate"
          /\ log' = Append(log, PopulateCall)
          /\ UNCHANGED <<outcome, route, originalGasPrice, sent>>
     ELSE IF code = "-32602" /\ attempt = 1 /\ route.kind = "zapper"
     THEN /\ attempt' = 2
          /\ sendTransaction(Tx("zapper", 2, [FirstZapperGas EXCEPT !.gasPrice = SecondZapperGas.gasPrice]), <<>>)
          /\ UNCHANGED <<outcome, overrides, route, originalGasPrice>>
     ELSE /\ pc' = "done"
          /\ outcome' = Thrown(code, 0)
          /\ UNCHANGED <<log, overrides, route, attempt, originalGasPrice, sent>>

\* Catch trying again after an error of any code
CatchAnyCode(code) ==
  /\ rejected' = Append(rejected, code)
  /\ IF attempt = 1 /\ route.kind = "direct"
     THEN /\ attempt' = 2
          /\ overrides' = Gas(originalGasPrice, Undefined, Undefined)
          /\ pc' = "populate"
          /\ log' = Append(log, PopulateCall)
          /\ UNCHANGED <<outcome, route, originalGasPrice, sent>>
     ELSE IF attempt = 1 /\ route.kind = "zapper"
     THEN /\ attempt' = 2
          /\ sendTransaction(Tx("zapper", 2, SecondZapperGas), <<>>)
          /\ UNCHANGED <<outcome, overrides, route, originalGasPrice>>
     ELSE /\ pc' = "done"
          /\ outcome' = Thrown(code, 0)
          /\ UNCHANGED <<log, overrides, route, attempt, originalGasPrice, sent>>

\* An await inside the try of an execute function rejects with an error of this code:
\* the first attempt of the direct and the zapper route is followed by a second when
\* the code is -32602; the error is thrown otherwise
Catch(code) ==
  /\ rejected' = Append(rejected, code)
  /\ IF code = "-32602" /\ attempt = 1 /\ route.kind = "direct"
     THEN /\ attempt' = 2
          /\ overrides' = Gas(originalGasPrice, Undefined, Undefined)
          /\ pc' = "populate"
          /\ log' = Append(log, PopulateCall)
          /\ UNCHANGED <<outcome, route, originalGasPrice, sent>>
     ELSE IF code = "-32602" /\ attempt = 1 /\ route.kind = "zapper"
     THEN /\ attempt' = 2
          /\ sendTransaction(Tx("zapper", 2, SecondZapperGas), <<>>)
          /\ UNCHANGED <<outcome, overrides, route, originalGasPrice>>
     ELSE /\ pc' = "done"
          /\ outcome' = Thrown(code, 0)
          /\ UNCHANGED <<log, overrides, route, attempt, originalGasPrice, sent>>

\* zapIn testing the chain before the slippage
zapInChainFirst(zapProtocol, calls) ==
  IF isFantom(chainId)
  THEN /\ route' = Route("wido", zapProtocol)
       /\ pc' = "quote"
       /\ log' = log \o calls \o <<"getSigner", "wido.deposit">>
       /\ UNCHANGED <<outcome, overrides, attempt, originalGasPrice, sent, rejected>>
  ELSE IF slippage = Undefined
  THEN ThrowTx("SdkError", calls)
  ELSE /\ route' = Route("zapper", zapProtocol)
       /\ pc' = "quote"
       /\ log' = log \o calls \o <<"zapper.zapIn">>
       /\ UNCHANGED <<outcome, overrides, attempt, originalGasPrice, sent, rejected>>

\* zapIn(vault, token, amount, account, options, zapProtocol, overrides) up to its
\* first await
zapIn(zapProtocol, calls) ==
  IF slippage = Undefined
  THEN ThrowTx("SdkError", calls)
  ELSE IF isFantom(chainId)
  THEN /\ route' = Route("wido", zapProtocol)
       /\ pc' = "quote"
       /\ log' = log \o calls \o <<"getSigner", "wido.deposit">>
       /\ UNCHANGED <<outcome, overrides, attempt, originalGasPrice, sent, rejected>>
  ELSE /\ route' = Route("zapper", zapProtocol)
       /\ pc' = "quote"
       /\ log' = log \o calls \o <<"zapper.zapIn">>
       /\ UNCHANGED <<outcome, overrides, attempt, originalGasPrice, sent, rejected>>

\* DepositStart fetching the static record of every vault, the jars included
DepositStartStaticFirst ==
  /\ pc = "start" /\ op = "deposit"
  /\ pc' = "static"
  /\ log' = log \o <<"getSigner", "getStatic">>
  /\ UNCHANGED <<outcome, transaction, aggregation, inputs, instance>>

\* deposit up to its first await
DepositStart ==
  /\ pc = "start" /\ op = "deposit"
  /\ IF isZappingIntoPickleJar(vault)
     THEN zapIn("PICKLE", <<"getSigner">>)
     ELSE /\ pc' = "static"
          /\ log' = log \o <<"getSigner", "getStatic">>
          /\ UNCHANGED <<outcome, transaction>>
  /\ UNCHANGED <<aggregation, inputs, instance>>

\* deposit's getStatic([vault], overrides) settles
DepositStatic ==
  /\ pc = "static" /\ op = "deposit"
  /\ IF StaticError # "none"
     THEN ThrowTx(StaticError, <<>>)
     ELSE IF ~isUnderlyingToken
     THEN zapIn("YEARN", <<>>)
     ELSE executeVaultContractTransaction(<<>>)
  /\ UNCHANGED <<aggregation, inputs, instance>>

\* withdraw up to its first await
WithdrawStart ==
  /\ pc = "start" /\ op = "withdraw"
  /\ pc' = "static"
  /\ log' = Append(log, "getStatic")
  /\ UNCHANGED <<outcome, transaction, aggregation, inputs, instance>>

\* WithdrawStatic asking for the quote whatever options.slippage is
WithdrawStaticUnchecked ==
  /\ pc = "static" /\ op = "withdraw"
  /\ IF vaultStatic.settles = "rejected"
     THEN ThrowTx("static", <<>>)
     ELSE IF StaticError # "none"
     THEN ThrowTx(StaticError, <<"getSigner">>)
     ELSE IF isUnderlyingToken
     THEN executeVaultContractTransaction(<<"getSigner">>)
     ELSE /\ route' = Route(IF isFantom(chainId) THEN "wido" ELSE "zapper", "none")
          /\ pc' = "quote"
          /\ log' = log \o <<"getSigner", IF isFantom(chainId) THEN "wido.withdraw" ELSE "zapper.zapOut">>
          /\ UNCHANGED <<outcome, overrides, attempt, originalGasPrice, sent, rejected>>
  /\ UNCHANGED <<aggregation, inputs, instance>>

\* withdraw's getStatic([vault], overrides) settles: the signer is taken before
\* vaultRef.token is read
WithdrawStatic ==
  /\ pc = "static" /\ op = "withdraw"
  /\ IF vaultStatic.settles = "rejected"
     THEN ThrowTx("static", <<>>)
     ELSE IF StaticError # "none"
     THEN ThrowTx(StaticError, <<"getSigner">>)
     ELSE IF isUnderlyingToken
     THEN executeVaultContractTransaction(<<"getSigner">>)
     ELSE IF slippage = Undefined
     THEN ThrowTx("SdkError", <<"getSigner">>)
     ELSE /\ route' = Route(IF isFantom(chainId) THEN "wido" ELSE "zapper", "none")
          /\ pc' = "quote"
          /\ log' = log \o <<"getSigner", IF isFantom(chainId) THEN "wido.withdraw" ELSE "zapper.zapOut">>
          /\ UNCHANGED <<outcome, overrides, attempt, originalGasPrice, sent, rejected>>
  /\ UNCHANGED <<aggregation, inputs, instance>>

\* The quote of zapper.zapIn, zapper.zapOut, wido.deposit or wido.withdraw is in
QuoteResolve ==
  /\ pc = "quote"
  /\ IF route.kind = "wido" THEN sendWido ELSE executeZapperTransaction
  /\ UNCHANGED <<aggregation, inputs, instance>>

\* The quote is refused: no try is around it
QuoteReject ==
  /\ pc = "quote"
  /\ ThrowTx("quote", <<>>)
  /\ UNCHANGED <<aggregation, inputs, instance>>

\* The direct transaction is populated with the overrides as they are now, and sent
PopulateResolve ==
  /\ pc = "populate"
  /\ sendTransaction(Tx("direct", attempt, overrides), <<>>)
  /\ UNCHANGED <<outcome, overrides, route, attempt, originalGasPrice, rejected, aggregation, inputs, instance>>

\* The partner service populates nothing: SdkError("deposit transaction failed"),
\* which has no code
PopulateUndefined ==
  /\ pc = "populate" /\ PopulateCall = "partner.populateDepositTransaction"
  /\ ThrowTx("SdkError", <<>>)
  /\ UNCHANGED <<aggregation, inputs, instance>>

\* Populating the direct transaction rejects
PopulateReject ==
  /\ pc = "populate"
  /\ \E code \in Codes : Catch(code)
  /\ UNCHANGED <<aggregation, inputs, instance>>

\* ValidateResolve throwing when the validation did not succeed
ValidateResolveBlocking ==
  /\ pc = "validate"
  /\ \E validation \in {"success", "failure"} :
       /\ sent' = [sent EXCEPT ![Len(sent)].validation = validation]
       /\ IF validation = "success"
          THEN /\ pc' = "send"
               /\ log' = log \o <<"getSigner", "signer.sendTransaction">>
               /\ UNCHANGED outcome
          ELSE /\ pc' = "done"
               /\ outcome' = Thrown("SdkError", 0)
               /\ UNCHANGED log
  /\ UNCHANGED <<overrides, route, attempt, originalGasPrice, rejected, aggregation, inputs, instance>>

\* validateCalldata answers, success or not: the transaction goes to the signer
ValidateResolve ==
  /\ pc = "validate"
  /\ \E validation \in {"success", "failure"} :
       sent' = [sent EXCEPT ![Len(sent)].validation = validation]
  /\ pc' = "send"
  /\ log' = log \o <<"getSigner", "signer.sendTransaction">>
  /\ UNCHANGED <<outcome, overrides, route, attempt, originalGasPrice, rejected, aggregation, inputs, instance>>

\* validateCalldata rejects: sendTransaction rejects with it
ValidateReject ==
  /\ pc = "validate"
  /\ \E code \in Codes : Catch(code)
  /\ UNCHANGED <<aggregation, inputs, instance>>

\* The signer's sendTransaction resolves: the operation returns the response
SendResolve ==
  /\ pc = "send"
  /\ pc' = "done"
  /\ outcome' = ReturnedValue("TransactionResponse")
  /\ UNCHANGED <<log, transaction, aggregation, inputs, instance>>

\* The signer's sendTransaction rejects
SendReject ==
  /\ pc = "send"
  /\ \E code \in Codes : Catch(code)
  /\ UNCHANGED <<aggregation, inputs, instance>>

\* deposit or withdraw is called for any vault and token, on any chain, with any
\* options and overrides
TxInit ==
  /\ AggregationIdle
  /\ pc = "start"
  /\ outcome = Pending
  /\ log = <<>>
  /\ op \in {"deposit", "withdraw"}
  /\ addresses = None
  /\ cached = None
  /\ previous = None
  /\ chainId \in ChainIds
  /\ vault \in Vaults
  /\ token \in Tokens
  /\ vaultStatic \in StaticAnswers(vault)
  /\ partner \in Partners
  /\ addressProvider = "resolves"
  /\ slippage \in Slippages
  /\ callerOverrides \in GasChoices
  /\ allowList \in BOOLEAN
  /\ NoFill
  /\ NoInstance
  /\ overrides = callerOverrides
  /\ route = Route("none", "none")
  /\ attempt = 0
  /\ originalGasPrice = Undefined
  /\ sent = <<>>
  /\ rejected = <<>>

TxNext ==
  \/ DepositStart
  \/ DepositStatic
  \/ WithdrawStart
  \/ WithdrawStatic
  \/ QuoteResolve
  \/ QuoteReject
  \/ PopulateResolve
  \/ PopulateUndefined
  \/ PopulateReject
  \/ ValidateResolve
  \/ ValidateReject
  \/ SendResolve
  \/ SendReject

TxSpec == TxInit /\ [][TxNext]_vars

----------------------------------------------------------------------------
\* Approval, then deposit: the spender getDepositContractAddress resolves, and the
\* deposit that follows for the same vault and token on the same instance

\* getDepositContractAddress is called for any vault and token, on any chain; the
\* instance has no allow-list service and the caller passes no overrides
ApproveInit ==
  /\ AggregationIdle
  /\ NoFill
  /\ NoInstance
  /\ pc = "start"
  /\ outcome = Pending
  /\ log = <<>>
  /\ op = "getDepositContractAddress"
  /\ addresses = None
  /\ cached = None
  /\ previous = None
  /\ chainId \in ChainIds
  /\ vault \in Vaults
  /\ token \in Tokens
  /\ vaultStatic \in StaticAnswers(vault)
  /\ partner \in Partners
  /\ addressProvider \in {"resolves", "rejects"}
  /\ slippage \in {Undefined, "0.01"}
  /\ callerOverrides = Gas(Undefined, Undefined, Undefined)
  /\ allowList = FALSE
  /\ overrides = callerOverrides
  /\ route = Route("none", "none")
  /\ attempt = 0
  /\ originalGasPrice = Undefined
  /\ sent = <<>>
  /\ rejected = <<>>

\* The spender is resolved: deposit is called with the same vault and token
DepositAfterApproval ==
  /\ pc = "done" /\ op = "getDepositContractAddress"
  /\ outcome.kind = "returned"
  /\ previous' = Some(outcome.value)
  /\ op' = "deposit"
  /\ pc' = "start"
  /\ outcome' = Pending
  /\ log' = <<>>
  /\ UNCHANGED <<aggregation, transaction, addresses, cached, chainId,
                 vault, token, vaultStatic, partner, addressProvider, slippage,
                 callerOverrides, allowList, metadata, override, instance>>

ApproveNext ==
  \/ DepositRouteStart
  \/ DepositRouteStatic
  \/ DepositRoutePartner
  \/ DepositRouteRegistry
  \/ DepositAfterApproval
  \/ DepositStart
  \/ DepositStatic
  \/ QuoteResolve
  \/ QuoteReject
  \/ PopulateResolve
  \/ PopulateUndefined
  \/ PopulateReject
  \/ SendResolve
  \/ SendReject

ApproveSpec == ApproveInit /\ [][ApproveNext]_vars

(***************************************************************************)
(* fillMetadataOverrides, on every dynamic metadata and override record.    *)
(* The values of the fields are strings: "undefined" for a field that is    *)
(* not there, "true" and "false" for the booleans.                          *)
(***************************************************************************)

\* What `if (v)` and `v || w` take for true
Truthy(v) == v \notin {Undefined, "false", "", "0"}

\* v || w
Or(v, w) == IF Truthy(v) THEN v ELSE w

\* dynamic.metadata.apy: an Apy object, or none
NoApy == [set |-> FALSE, type |-> Undefined, net_apy |-> Undefined]

makeEmptyApy == [set |-> TRUE, type |-> "manual_override", net_apy |-> "0"]

\* The fields line 728 to 737 assign from the override record
AssignedFields ==
  {"depositsDisabled", "withdrawalsDisabled", "allowZapIn", "allowZapOut", "zapInWith",
   "zapOutWith", "migrationContract", "migrationTargetVault", "vaultNameOverride",
   "vaultDetailPageAssets"}

fillMetadataOverrides(dynamic, vaultOverrides) ==
  LET apyOf(m) == IF m.apy.set THEN m.apy ELSE makeEmptyApy
      named == IF Truthy(vaultOverrides.displayName)
               THEN [dynamic EXCEPT !.displayName = vaultOverrides.displayName] ELSE dynamic
      symbolled == IF Truthy(vaultOverrides.vaultSymbolOverride)
                   THEN [named EXCEPT !.symbol = vaultOverrides.vaultSymbolOverride] ELSE named
      iconed == IF Truthy(vaultOverrides.vaultIconOverride)
                THEN [symbolled EXCEPT !.displayIcon = vaultOverrides.vaultIconOverride] ELSE symbolled
      typed == IF Truthy(vaultOverrides.apyTypeOverride)
               THEN [iconed EXCEPT !.apy = [apyOf(iconed) EXCEPT !.type = vaultOverrides.apyTypeOverride]]
               ELSE iconed
      netted == IF Truthy(vaultOverrides.apyOverride)
                THEN [typed EXCEPT !.apy = [apyOf(typed) EXCEPT !.net_apy = vaultOverrides.apyOverride,
                                                                 !.type = "override"]]
                ELSE typed
      assigned == [f \in DOMAIN netted |-> IF f \in AssignedFields THEN vaultOverrides[f] ELSE netted[f]]
      hidden == [assigned EXCEPT !.hideIfNoDeposits =
                   Or(Or(Or(assigned.emergencyShutdown, vaultOverrides.retired),
                         vaultOverrides.migrationAvailable), "false")]
  IN  [hidden EXCEPT !.migrationAvailable =
         Or(Or(hidden.migrationAvailable, vaultOverrides.migrationAvailable), "false")]

\* The dynamic metadata getDynamic hands over: a display name and icon of its own (the
\* empty string when the token has no alias), the APY of vision or none, and what the
\* adapter answered for the other fields
Metadatas ==
  {[f \in AssignedFields |-> had] @@
   [displayName |-> name, symbol |-> "yvDAI", displayIcon |-> "icon", apy |-> apy,
    emergencyShutdown |-> shutdown, migrationAvailable |-> migration,
    hideIfNoDeposits |-> Undefined] :
     had \in {Undefined, "adapter"}, name \in {"", "DAI"},
     apy \in {NoApy, [set |-> TRUE, type |-> "v2:averaged", net_apy |-> "0.05"]},
     shutdown \in {"false", "true"}, migration \in {Undefined, "false", "true"}}

\* The override records: each of the assigned fields alone, all of them or none, any
\* of the others
Overrides ==
  {[f \in AssignedFields |-> IF f \in given THEN "override" ELSE Undefined] @@
   [displayName |-> name, vaultSymbolOverride |-> symbol, vaultIconOverride |-> Undefined,
    apyTypeOverride |-> type, apyOverride |-> net, retired |-> retired,
    migrationAvailable |-> migration] :
     given \in {{}, AssignedFields} \cup {{f} : f \in AssignedFields},
     name \in {Undefined, "", "override"}, symbol \in {Undefined, "override"},
     type \in {Undefined, "override_type"}, net \in {Undefined, "0", "0.07"},
     retired \in {Undefined, "true"}, migration \in {Undefined, "true"}}

FillInit ==
  /\ AggregationIdle
  /\ NoTransaction
  /\ pc = "start"
  /\ outcome = Pending
  /\ log = <<>>
  /\ op = "fillMetadataOverrides"
  /\ addresses = None
  /\ cached = None
  /\ previous = None
  /\ chainId = 1
  /\ vault = ""
  /\ token = ""
  /\ vaultStatic = Rejects
  /\ partner = NoPartner
  /\ addressProvider = "rejects"
  /\ NoInstance
  /\ metadata \in Metadatas
  /\ override \in Overrides

\* if (overrides) { this.fillMetadataOverrides(dynamic, overrides); }
FillMetadataOverrides ==
  /\ pc = "start" /\ op = "fillMetadataOverrides"
  /\ pc' = "done"
  /\ outcome' = ReturnedValue(fillMetadataOverrides(metadata, override))
  /\ UNCHANGED <<log, aggregation, inputs, instance, transaction>>

FillSpec == FillInit /\ [][FillMetadataOverrides]_vars

----------------------------------------------------------------------------
\* positionsOf: every adapter is asked at once, and an adapter whose call rejects is
\* asked again in chunks

\* Object.values(this.yearn.services.lens.adapters.vaults)
VaultAdapters == <<"v1", "v2">>

AdapterIds == 1..Len(VaultAdapters)

\* The vaults adapter k lists: each adapter owns a block of the registry's vaults
AdapterVaults(k) ==
  LET first == ((k - 1) * registry) \div Len(VaultAdapters)
      last == (k * registry) \div Len(VaultAdapters)
  IN  [i \in 1..(last - first) |-> first + i]

\* getStatic(undefined, overrides).then((assets) => assets.map((asset) => asset.address))
StaticVaultAddresses == Flat([k \in AdapterIds |-> AdapterVaults(k)])

PositionOf(k, a) == [assetAddress |-> a, adapter |-> VaultAdapters[k]]

\* adapter.positionsOf(address, filter, overrides): the positions in the adapter's
\* vaults, those of the filter when one is given, in the order asked
AdapterPositionsOf(k, filter) ==
  LET own == AdapterVaults(k)
      asked == IF filter.defined
               THEN SelectSeq(filter.value, LAMBDA a : Includes(own, a))
               ELSE own
  IN  [i \in 1..Len(asked) |-> PositionOf(k, asked[i])]

\* An entry of the log: a call of adapter k's positionsOf, or the getStatic call of
\* the catch block of adapter k
PositionsCall(k, filter) == [call |-> "positionsOf", adapter |-> k, addresses |-> filter]

GetStaticCall(k) == [call |-> "getStatic", adapter |-> k, addresses |-> None]

\* The callback of one adapter: where it waits (bulk, getStatic, chunks) or how it
\* settled (resolved, rejected), how its unfiltered call settled, its chunk calls
\* and what it resolved to
AdapterCall(at, bulk, chunks, result) ==
  [at |-> at, bulk |-> bulk, chunks |-> chunks, result |-> result]

\* The address filters positionsOf is called with: of no, one, ChunkSize and more
\* addresses, in descending order
PositionFilters ==
  {Some([i \in 1..n |-> n + 1 - i]) : n \in {0, 1, ChunkSize, ChunkSize + 1, MaxAddrs}}

PositionsInit ==
  /\ registry \in 0..MaxAddrs
  /\ metaCall = "idle"
  /\ staticCall = "idle"
  /\ vaultMetadataOverrides = <<>>
  /\ assetsStatic = <<>>
  /\ unchunked = Idle
  /\ chunkCalls = <<>>
  /\ assetsDynamic = <<>>
  /\ stratCall = "idle"
  /\ earnCall = "idle"
  /\ pc = "start"
  /\ outcome = Pending
  /\ log = <<>>
  /\ op = "positionsOf"
  /\ addresses \in {None} \cup PositionFilters
  /\ cached = None
  /\ previous = None
  /\ chainId = 1
  /\ NoRoute
  /\ NoFill
  /\ positions = <<>>
  /\ yearn = <<>>

\* adapters.map(async (adapter) => { try { return await adapter.positionsOf(...) } ... })
PositionsStart ==
  /\ pc = "start" /\ op = "positionsOf"
  /\ positions' = [k \in AdapterIds |-> AdapterCall("bulk", "pending", <<>>, <<>>)]
  /\ log' = [k \in AdapterIds |-> PositionsCall(k, addresses)]
  /\ pc' = "positions"
  /\ UNCHANGED <<outcome, yearn, aggregation, inputs, transaction>>

\* Promise.all(...).then((arr) => arr.flat()): with every adapter's callback resolved
\* positionsOf returns their positions in adapter order
SettlePositions(calls) ==
  IF \A k \in AdapterIds : calls[k].at = "resolved"
  THEN /\ pc' = "done"
       /\ outcome' = Returned(Flat([k \in AdapterIds |-> calls[k].result]))
  ELSE UNCHANGED <<pc, outcome>>

\* chunks.map(async (chunk) => adapter.positionsOf(address, chunk, overrides)) and the
\* Promise.all over it, which resolves at once when there is no chunk
ChunkCalls(k, chunks) ==
  /\ positions' = [positions EXCEPT ![k] =
       AdapterCall(IF chunks = <<>> THEN "resolved" ELSE "chunks", "failed",
                   [i \in 1..Len(chunks) |-> [addresses |-> chunks[i], st |-> "pending"]],
                   <<>>)]
  /\ log' = log \o [i \in 1..Len(chunks) |-> PositionsCall(k, Some(chunks[i]))]
  /\ SettlePositions(positions')

\* IssuePositionChunks asking for all the addresses in one call
IssuePositionChunksWhole(k, allAddresses) == ChunkCalls(k, <<allAddresses>>)

\* const chunks = chunkArray(allAddresses, 30)
IssuePositionChunks(k, allAddresses) == ChunkCalls(k, chunkArray(allAddresses, ChunkSize))

\* The unfiltered call of adapter k resolves
BulkResolve(k) ==
  /\ pc = "positions" /\ positions[k].at = "bulk"
  /\ positions' = [positions EXCEPT ![k] =
       AdapterCall("resolved", "ok", <<>>, AdapterPositionsOf(k, addresses))]
  /\ SettlePositions(positions')
  /\ UNCHANGED <<log, yearn, aggregation, inputs, transaction>>

\* The unfiltered call of adapter k rejects: catch { if (addresses) ... else getStatic }.
\* An array is truthy, the empty one too
BulkReject(k) ==
  /\ pc = "positions" /\ positions[k].at = "bulk"
  /\ IF addresses.defined
     THEN IssuePositionChunks(k, addresses.value)
     ELSE /\ positions' = [positions EXCEPT ![k].at = "getStatic", ![k].bulk = "failed"]
          /\ log' = Append(log, GetStaticCall(k))
          /\ UNCHANGED <<pc, outcome>>
  /\ UNCHANGED <<yearn, aggregation, inputs, transaction>>

\* The getStatic of adapter k's catch block resolves
PositionsStaticResolve(k) ==
  /\ pc = "positions" /\ positions[k].at = "getStatic"
  /\ IssuePositionChunks(k, StaticVaultAddresses)
  /\ UNCHANGED <<yearn, aggregation, inputs, transaction>>

\* It rejects: the callback rejects, and Promise.all and positionsOf with it
PositionsStaticReject(k) ==
  /\ pc = "positions" /\ positions[k].at = "getStatic"
  /\ positions' = [positions EXCEPT ![k].at = "rejected"]
  /\ pc' = "done"
  /\ outcome' = Thrown("getStatic", k)
  /\ UNCHANGED <<log, yearn, aggregation, inputs, transaction>>

\* Chunk i of adapter k resolves; with its last chunk in, the chunks are flattened
\* in chunk order
PositionChunkResolve(k, i) ==
  /\ pc = "positions" /\ positions[k].at = "chunks"
  /\ positions[k].chunks[i].st = "pending"
  /\ LET chunks == [positions[k].chunks EXCEPT ![i].st = "ok"]
     IN  positions' = [positions EXCEPT ![k] =
           IF \A j \in 1..Len(chunks) : chunks[j].st = "ok"
           THEN AdapterCall("resolved", "failed", chunks,
                  Flat([j \in 1..Len(chunks) |-> AdapterPositionsOf(k, Some(chunks[j].addresses))]))
           ELSE AdapterCall("chunks", "failed", chunks, <<>>)]
  /\ SettlePositions(positions')
  /\ UNCHANGED <<log, yearn, aggregation, inputs, transaction>>

\* Chunk i of adapter k rejects: nothing catches it and positionsOf throws
PositionChunkReject(k, i) ==
  /\ pc = "positions" /\ positions[k].at = "chunks"
  /\ positions[k].chunks[i].st = "pending"
  /\ positions' = [positions EXCEPT ![k].at = "rejected", ![k].chunks[i].st = "failed"]
  /\ pc' = "done"
  /\ outcome' = Thrown("positionsOf", k)
  /\ UNCHANGED <<log, yearn, aggregation, inputs, transaction>>

PositionsNext ==
  \/ PositionsStart
  \/ \E k \in AdapterIds : BulkResolve(k)
  \/ \E k \in AdapterIds : BulkReject(k)
  \/ \E k \in AdapterIds : PositionsStaticResolve(k)
  \/ \E k \in AdapterIds : PositionsStaticReject(k)
  \/ \E k \in DOMAIN positions : \E i \in DOMAIN positions[k].chunks : PositionChunkResolve(k, i)
  \/ \E k \in DOMAIN positions : \E i \in DOMAIN positions[k].chunks : PositionChunkReject(k, i)

PositionsSpec == PositionsInit /\ [][PositionsNext]_vars

----------------------------------------------------------------------------
\* The Yearn instance: its constructor and setChainId

\* An object made by `new`: its class, the chain id it was made with, which call of
\* the constructor or of setChainId made it, and the objects it was handed
New(class, c, call, deps) ==
  [class |-> class, chainId |-> c, id |-> [call |-> call, site |-> class], deps |-> deps]

Holds(role, object) == [role |-> role, object |-> object]

\* services.partner without a partner id
NoService == New(Undefined, 0, 0, <<>>)

\* ctx.partnerId: none, the empty string, a partner's id
PartnerIds == {Undefined, "", "partnerId"}

\* The object and all it holds, directly or not
RECURSIVE Reachable(_)
Reachable(object) ==
  {object} \cup UNION {Reachable(object.deps[i].object) : i \in 1..Len(object.deps)}

_initServices(c, ctx, provider, allowlistService, call) ==
  [lens |-> New("LensService", c, call, <<Holds("addressProvider", provider)>>),
   oracle |-> New("OracleService", c, call, <<Holds("addressProvider", provider)>>),
   zapper |-> New("ZapperService", c, call, <<>>),
   portals |-> New("PortalsService", c, call, <<>>),
   wido |-> New("WidoService", c, call, <<>>),
   asset |-> New("AssetService", c, call, <<>>),
   vision |-> New("VisionService", c, call, <<>>),
   subgraph |-> New("SubgraphService", c, call, <<>>),
   pickle |-> New("PickleService", c, call, <<>>),
   helper |-> New("HelperService", c, call, <<Holds("addressProvider", provider)>>),
   telegram |-> New("TelegramService", c, call, <<>>),
   meta |-> New("MetaService", c, call, <<>>),
   allowList |-> allowlistService,
   transaction |-> New("TransactionService", c, call, <<Holds("allowList", allowlistService)>>),
   partner |-> IF Truthy(ctx.partnerId)
               THEN New("PartnerService", c, call, <<Holds("addressProvider", provider)>>)
               ELSE NoService,
   propertiesAggregator |->
     New("PropertiesAggregatorService", c, call, <<Holds("addressProvider", provider)>>)]

\* _initAdapters making the adapter with the chain id of the construction
_initAdaptersFirstChain(y, c, call) ==
  [vaults |-> [v2 |-> New("RegistryV2Adapter", Head(y.set), call,
                          <<Holds("addressProvider", y.addressProvider)>>)]]

\* new RegistryV2Adapter(chainId, this.context, this.addressProvider)
_initAdapters(y, c, call) ==
  [vaults |-> [v2 |-> New("RegistryV2Adapter", c, call,
                          <<Holds("addressProvider", y.addressProvider)>>)]]

\* The assignments constructor and setChainId share, in their order; y.set is the
\* chain ids the instance was given so far, c the last of them
Rebuilt(y, c) ==
  LET call == Len(y.set)
      y1 == [y EXCEPT !.addressProvider = New("AddressProvider", c, call, <<>>)]
      allowListService ==
        New("AllowListService", c, call, <<Holds("addressProvider", y1.addressProvider)>>)
      y2 == [y1 EXCEPT !.services =
               _initServices(c, y1.context, y1.addressProvider, allowListService, call)]
      y3 == [y2 EXCEPT !.adapters = _initAdapters(y2, c, call)]
  IN  [y3 EXCEPT !.vaults = New("VaultInterface", c, call, <<>>),
                 !.tokens = New("TokenInterface", c, call, <<>>),
                 !.earnings = New("EarningsInterface", c, call, <<>>),
                 !.fees = New("FeesInterface", c, call, <<>>),
                 !.simulation = New("SimulationInterface", c, call, <<>>),
                 !.strategies = New("StrategyInterface", c, call, <<>>)]

\* The fields of an instance before the constructor's first assignment
Unassigned(ctx, c) ==
  [context |-> ctx, set |-> <<c>>,
   addressProvider |-> NoService, services |-> <<>>, adapters |-> <<>>,
   vaults |-> NoService, tokens |-> NoService, earnings |-> NoService,
   fees |-> NoService, simulation |-> NoService, strategies |-> NoService]

\* new Yearn(chainId, context)
constructor(c, ctx) == Rebuilt(Unassigned(ctx, c), c)

YearnInit ==
  /\ AggregationIdle
  /\ pc = "done"
  /\ outcome = Pending
  /\ log = <<>>
  /\ op = "setChainId"
  /\ addresses = None
  /\ cached = None
  /\ previous = None
  /\ chainId = 1
  /\ NoRoute
  /\ NoFill
  /\ positions = <<>>
  /\ yearn \in {constructor(c, [partnerId |-> p]) : c \in ChainIds, p \in PartnerIds}

\* yearn.setChainId(c)
setChainId(c) ==
  /\ op = "setChainId"
  /\ Len(yearn.set) <= MaxSetChainId
  /\ yearn' = Rebuilt([yearn EXCEPT !.set = Append(@, c)], c)
  /\ UNCHANGED <<pc, outcome, log, positions, aggregation, inputs, transaction>>

YearnNext == \E c \in ChainIds : setChainId(c)

YearnSpec == YearnInit /\ [][YearnNext]_vars

----------------------------------------------------------------------------
\* Properties of get

\* How often get issued the call named entry
Issued(entry) == Cardinality({k \in 1..Len(log) : log[k] = entry})

\* get ran its merge loop: both enrichment lookups are settled
Merged == pc = "done" /\ stratCall \in {"ok", "failed"} /\ earnCall \in {"ok", "failed"}

StaticAddresses == Range(Addresses(assetsStatic))

\* The static records with no dynamic record of the same address
Orphans == {a \in StaticAddresses : Count(assetsDynamic, a) = 0}

\* The addresses whose collected override sets hideAlways
Hidden ==
  {vaultMetadataOverrides[k].address :
     k \in {j \in 1..Len(vaultMetadataOverrides) : vaultMetadataOverrides[j].hideAlways}}

\* The addresses whose collected override gives an order
Ordered ==
  {vaultMetadataOverrides[k].address :
     k \in {j \in 1..Len(vaultMetadataOverrides) : vaultMetadataOverrides[j].hasOrder}}

OverrideOrder(a) ==
  vaultMetadataOverrides[CHOOSE k \in 1..Len(vaultMetadataOverrides) :
                           vaultMetadataOverrides[k].address = a].order

\* The position of address a in the returned list (a occurs in it)
Position(a) == CHOOSE k \in 1..Len(outcome.list) : outcome.list[k].address = a

Listed == Range(Addresses(outcome.list))

(* C1: when get reaches its merge loop and some static record, hidden by its    *)
(* override or not, has no dynamic record of the same address, get throws an    *)
(* SdkError naming such a record and returns no list; get returns a list only   *)
(* when every static record has its dynamic record.                             *)
C1_MissingDynamicThrows ==
  Merged =>
    /\ Orphans # {} =>
         /\ outcome.kind = "thrown" /\ outcome.error = "SdkError"
         /\ outcome.at \in Orphans
         /\ outcome.list = <<>>
    /\ outcome.kind = "returned" => Orphans = {}

\* get threw for a static record whose override sets hideAlways
C1_Witness ==
  /\ Merged
  /\ outcome.kind = "thrown" /\ outcome.error = "SdkError"
  /\ outcome.at \in Hidden

(* C2: the list get returns holds no record of a vault whose collected override *)
(* sets hideAlways, whatever order that override gives and whatever the other   *)
(* vaults are.                                                                  *)
C2_HiddenNeverListed ==
  pc = "done" /\ outcome.kind = "returned" => Listed \cap Hidden = {}

\* get returned other vaults while a vault with hideAlways and an order, whose
\* dynamic record was there, stayed out
C2_Witness ==
  /\ pc = "done" /\ outcome.kind = "returned"
  /\ \E a \in Hidden \cap Ordered \cap StaticAddresses :
       /\ Count(assetsDynamic, a) = 1
       /\ a \notin Listed
       /\ \E b, c \in Listed : b < a /\ a < c

(* C3: when get returns, every static record that is not hidden (and has its    *)
(* dynamic record) gives exactly one record of the list, with the static        *)
(* record's address, and the list holds no address that is not a static one.    *)
C3_OneRecordPerVault ==
  pc = "done" /\ outcome.kind = "returned" =>
    /\ \A a \in StaticAddresses \ Hidden :
         Count(assetsDynamic, a) >= 1 => Count(outcome.list, a) = 1
    /\ Listed \subseteq StaticAddresses
    /\ Len(outcome.list) = Cardinality(StaticAddresses \ Hidden)

\* get returned two records or more after passing over a hidden vault
C3_Witness ==
  /\ pc = "done" /\ outcome.kind = "returned"
  /\ Len(outcome.list) >= 2
  /\ \E a \in Hidden \cap StaticAddresses : \E b \in Listed : a < b

(* C4: of two listed vaults that both have an explicit override order, the one  *)
(* with the lower order stands first in the list get returns, wherever the two  *)
(* stand in the static input and whatever other vaults (with or without an      *)
(* order) are listed.                                                           *)
C4_ExplicitOrderAscending ==
  pc = "done" /\ outcome.kind = "returned" =>
    \A a, b \in Listed \cap Ordered :
      OverrideOrder(a) < OverrideOrder(b) => Position(a) < Position(b)

\* The static input had B before A, a vault without order was listed too, and
\* the list has A (lower order) before B
C4_Witness ==
  /\ pc = "done" /\ outcome.kind = "returned"
  /\ \E a, b \in Listed \cap Ordered :
       /\ OverrideOrder(a) < OverrideOrder(b)
       /\ b < a
       /\ Position(a) < Position(b)
       /\ Listed \ Ordered # {}

(* C5: in the list get returns, every vault without an explicit override order  *)
(* stands after every vault with one (the sort key of a vault without order     *)
(* sorts last).                                                                 *)
C5_UnorderedLast ==
  pc = "done" /\ outcome.kind = "returned" =>
    \A a \in Listed \cap Ordered : \A b \in Listed \ Ordered : Position(a) < Position(b)

\* The chunk calls of the fallback are out: the unchunked call failed
Fallback == unchunked.st = "failed"

\* In how many chunk calls address a was asked
AskedIn(a) == {i \in 1..Len(chunkCalls) : a \in Range(chunkCalls[i].addrs)}

\* The records the adapter answered to the chunk calls
Answered == Flat([i \in 1..Len(chunkCalls) |-> chunkCalls[i].data])

(* C6: when the unchunked getDynamic call has failed and n static addresses are *)
(* known, get issues one getDynamic per chunk for ceil(n/30) chunks of 1 to 30  *)
(* addresses (61 addresses: 30, 30 and 1); every static address is asked in     *)
(* exactly one chunk and once in it, and the flattened dynamic result holds     *)
(* each answered address exactly once and nothing else.                         *)
C6_ChunksPartitionStatic ==
  Fallback =>
    LET n == Len(assetsStatic) IN
    /\ Len(chunkCalls) = (n + 29) \div 30
    /\ Issued("getDynamicChunk") = Len(chunkCalls)
    /\ \A i \in 1..Len(chunkCalls) :
         /\ Len(chunkCalls[i].addrs) >= 1 /\ Len(chunkCalls[i].addrs) <= 30
         /\ i < Len(chunkCalls) => Len(chunkCalls[i].addrs) = 30
         /\ Cardinality(Range(chunkCalls[i].addrs)) = Len(chunkCalls[i].addrs)
    /\ \A a \in StaticAddresses : Cardinality(AskedIn(a)) = 1
    /\ \A i \in 1..Len(chunkCalls) : Range(chunkCalls[i].addrs) \subseteq StaticAddresses
    /\ n = 61 => [i \in 1..Len(chunkCalls) |-> Len(chunkCalls[i].addrs)] = <<30, 30, 1>>
    /\ pc \in {"enrich", "done"} /\ (\A i \in 1..Len(chunkCalls) : chunkCalls[i].st = "ok") =>
         /\ \A a \in StaticAddresses : Count(assetsDynamic, a) = Count(Answered, a)
         /\ \A a \in StaticAddresses : Count(assetsDynamic, a) <= 1
         /\ Range(Addresses(assetsDynamic)) \subseteq StaticAddresses
         /\ Len(Answered) = n => \A a \in StaticAddresses : Count(assetsDynamic, a) = 1

\* 61 addresses went out as chunks of 30, 30 and 1 and all 61 records came back
C6_Witness ==
  /\ Fallback
  /\ Len(assetsStatic) = 61
  /\ Len(chunkCalls) = 3
  /\ pc = "done" /\ outcome.kind = "returned"
  /\ Len(outcome.list) = 61

(* C7: get issues a chunked dynamic query only after its one unchunked          *)
(* getDynamic call was issued and failed; when the unchunked call succeeds no   *)
(* chunked query is issued; the unchunked call is issued at most once, and      *)
(* exactly once in every get that got its static records.                       *)
C7_ChunkedOnlyAfterFailure ==
  /\ Issued("getDynamic") <= 1
  /\ (chunkCalls # <<>> \/ Issued("getDynamicChunk") > 0) =>
       /\ unchunked.st = "failed"
       /\ \A j, k \in 1..Len(log) :
            log[j] = "getDynamic" /\ log[k] = "getDynamicChunk" => j < k
  /\ unchunked.st \in {"adapter", "apy", "ok"} =>
       chunkCalls = <<>> /\ Issued("getDynamicChunk") = 0
  /\ (pc \in {"dynamic", "chunked", "enrich"} \/ (pc = "done" /\ staticCall = "ok")) =>
       Issued("getDynamic") = 1
  /\ unchunked.st = "idle" <=> Issued("getDynamic") = 0

\* get returned after the unchunked call failed and two chunked queries were issued
C7_Witness ==
  /\ pc = "done" /\ outcome.kind = "returned"
  /\ unchunked.st = "failed"
  /\ Issued("getDynamic") = 1
  /\ Issued("getDynamicChunk") = 2

(* C8: when the unchunked dynamic query has failed and one of the chunked       *)
(* queries fails, get throws that chunk's error: it returns no list, issues no  *)
(* further query and asks no chunk a second time.                               *)
C8_ChunkFailurePropagates ==
  (\E i \in 1..Len(chunkCalls) : chunkCalls[i].st = "failed") =>
    /\ pc = "done"
    /\ outcome.kind = "thrown" /\ outcome.list = <<>>
    /\ outcome.at \in 1..Len(chunkCalls)
    /\ chunkCalls[outcome.at].st = "failed"
    /\ outcome.error = chunkCalls[outcome.at].error
    /\ Cardinality({i \in 1..Len(chunkCalls) : chunkCalls[i].st = "failed"}) = 1
    /\ Issued("getDynamic") = 1
    /\ Issued("getDynamicChunk") = Len(chunkCalls)
    /\ Issued("strategies") = 0 /\ Issued("earnings") = 0

\* The second chunk failed after the first chunk had answered
C8_Witness ==
  /\ pc = "done" /\ outcome.kind = "thrown"
  /\ Len(chunkCalls) >= 2
  /\ chunkCalls[1].st = "ok" /\ chunkCalls[1].data # <<>>
  /\ chunkCalls[2].st = "failed"
  /\ outcome.at = 2

\* A collaborator other than the three enrichment sources made get fail
HardFailure ==
  \/ staticCall = "failed"
  \/ \E i \in 1..Len(chunkCalls) : chunkCalls[i].st = "failed"
  \/ Merged /\ Orphans # {}

(* C9: a failure of meta.vaults, of vaultsStrategiesMetadata or of              *)
(* assetsHistoricEarnings, in any combination, does not make get fail: the      *)
(* failed lookup counts as an empty result, and get returns one record per      *)
(* vault that is not hidden, without the enrichment of the failed lookup.       *)
C9_EnrichmentFailuresSwallowed ==
  /\ metaCall = "failed" => vaultMetadataOverrides = <<>>
  /\ pc = "done" /\ ~HardFailure =>
       /\ outcome.kind = "returned"
       /\ \A a \in StaticAddresses \ Hidden : Count(outcome.list, a) = 1
       /\ metaCall = "failed" => Len(outcome.list) = Len(assetsStatic)
       /\ \A k \in 1..Len(outcome.list) :
            /\ outcome.list[k].strategies = Undefined <=> stratCall = "failed"
            /\ outcome.list[k].historicEarnings = Undefined <=> earnCall = "failed"

\* All three lookups failed and get returned its records
C9_Witness ==
  /\ pc = "done" /\ outcome.kind = "returned"
  /\ metaCall = "failed" /\ stratCall = "failed" /\ earnCall = "failed"
  /\ Len(outcome.list) >= 2

(* C10: a failure of the APY batch query (vision.apy) inside getDynamic is      *)
(* caught: the getDynamic call does not fail, and get does not throw it.        *)
C10_ApyFailureCaught ==
  /\ unchunked.error = "apy" => unchunked.st # "failed"
  /\ \A i \in 1..Len(chunkCalls) : chunkCalls[i].error = "apy" => chunkCalls[i].st # "failed"
  /\ pc = "done" /\ outcome.kind = "thrown" => outcome.error # "apy"

----------------------------------------------------------------------------
\* Properties of the caches

\* How often the call was issued
Times(call) == Cardinality({k \in 1..Len(log) : log[k] = call})

\* The positions of the cached list that pass the address filter
Kept ==
  {i \in 1..Len(cached.value) :
     addresses.defined => \E j \in 1..Len(addresses.value) : addresses.value[j] = cached.value[i].address}

\* The k-th position that passes the filter, in cached order
KeptAt(k) == CHOOSE i \in Kept : Cardinality({j \in Kept : j <= i}) = k

\* No call of the aggregation has been issued
NothingIssued ==
  /\ metaCall = "idle" /\ staticCall = "idle" /\ stratCall = "idle" /\ earnCall = "idle"
  /\ unchunked = Idle /\ chunkCalls = <<>>

\* C11: get, getDynamic and tokens read their cache once, before anything else they
\* issue; on a cache hit nothing but the cache read is ever issued (no adapter query,
\* no metadata, APY, strategy or earnings lookup, no oracle call), and the operation
\* returns the cached records, those whose address the filter includes when get or
\* getDynamic is given a filter, in cached order.
C11_CacheReadOnceAndShortCircuits ==
  /\ log # <<>> => log[1] = "cache" /\ Times("cache") = 1
  /\ pc # "start" => log # <<>>
  /\ cached.defined =>
       /\ NothingIssued
       /\ log \in {<<>>, <<"cache">>}
       /\ pc \in {"start", "done"}
       /\ pc = "done" =>
            /\ outcome.kind = "returned"
            /\ Len(outcome.list) = Cardinality(Kept)
            /\ \A k \in 1..Len(outcome.list) : outcome.list[k] = cached.value[KeptAt(k)]

\* A hit of get whose filter keeps one of two cached vaults
C11_Witness ==
  /\ op = "get" /\ pc = "done"
  /\ cached.defined /\ addresses.defined
  /\ Len(cached.value) = 2 /\ cached.value[1].address # cached.value[2].address
  /\ Len(outcome.list) = 1

----------------------------------------------------------------------------
\* Properties of two calls of get

----------------------------------------------------------------------------
\* Properties of route resolution

\* The vault's underlying token, when getStatic has a record of the vault
HasUnderlying == vaultStatic.settles = "resolved" /\ vaultStatic.value # <<>>

Underlying == vaultStatic.value[1].token

PartnerAllowed == partner.defined /\ partner.allowed

\* C13: for the chain's native token, getDepositContractAddress returns the vault
\* address, for every vault (one of the pickle jars, one the partner service is
\* allowed for), and asks neither the partner address nor the address registry.
C13_NativeDepositRouteIsVault ==
  op = "getDepositContractAddress" /\ token = "eth" =>
    /\ Times("partner.address") = 0 /\ Times("addressById") = 0
    /\ pc # "start" => pc = "done" /\ outcome = ReturnedValue(vault)

\* The native token into a pickle jar the partner service is allowed for
C13_Witness ==
  /\ op = "getDepositContractAddress" /\ pc = "done"
  /\ token = "eth" /\ vault \in PickleJars /\ PartnerAllowed /\ partner.address # ""
  /\ outcome.kind = "returned"

\* C14: deposit with the chain's native token executes on the direct route (a vault
\* deposit call populated locally) and never on a zap route, for every vault, the
\* pickle jars and the vaults the partner service is allowed for included.
C14_NativeDepositIsDirect ==
  op = "deposit" /\ isNativeToken(token) /\ route.kind # "none" => route.kind = "direct"

\* C15: for a token that is not native and a vault of the pickle-jar set,
\* getDepositContractAddress returns the address registered under pickleZapIn, on
\* every chain, whatever the underlying token and the partner service.
C15_JarDepositRouteIsPickleZap ==
  /\ op = "getDepositContractAddress" /\ pc = "done"
  /\ token # "eth" /\ vault \in PickleJars
  /\ addressProvider = "resolves"
  => outcome = ReturnedValue("0xPickleZapIn")

\* C16: for a token that is not native and is the underlying token of a vault outside
\* the jar set, getDepositContractAddress returns the partner address when the partner
\* service is allowed for the vault, throws an SdkError when that address is not
\* configured (never the vault address), and returns the vault address when the
\* partner service is not allowed.
C16_UnderlyingDepositRoute ==
  /\ op = "getDepositContractAddress" /\ pc = "done"
  /\ token # "eth" /\ vault \notin PickleJars
  /\ HasUnderlying /\ token = Underlying
  => /\ PartnerAllowed /\ partner.address # "" => outcome = ReturnedValue(partner.address)
     /\ PartnerAllowed /\ partner.address = "" => outcome = Thrown("SdkError", 0)
     /\ ~PartnerAllowed => outcome = ReturnedValue(vault)

\* The partner service is allowed and has no address: the SdkError
C16_Witness ==
  /\ op = "getDepositContractAddress" /\ pc = "done"
  /\ token # "eth" /\ vault \notin PickleJars
  /\ HasUnderlying /\ token = Underlying
  /\ PartnerAllowed /\ partner.address = ""
  /\ outcome.kind = "thrown"

\* C17: for a token that is neither native nor the underlying token, a vault outside
\* the jar set and a chain other than Fantom, getDepositContractAddress asks the
\* address registry and returns what it gives for zapperZapIn; it returns neither the
\* pickle zap-in address, nor the vault address, nor the partner address.
C17_ZapDepositRouteIsZapperZapIn ==
  /\ op = "getDepositContractAddress" /\ pc = "done"
  /\ token # "eth" /\ vault \notin PickleJars /\ chainId # 250
  /\ HasUnderlying /\ token # Underlying
  => /\ Times("addressById") = 1
     /\ addressProvider = "resolves" => outcome = ReturnedValue("0xZapperZapIn")
     /\ outcome.kind = "returned" => outcome.value \notin {"0xPickleZapIn", vault, partner.address}

\* A zap deposit route with a partner service that is allowed and configured
C17_Witness ==
  /\ op = "getDepositContractAddress" /\ pc = "done"
  /\ token # "eth" /\ vault \notin PickleJars /\ chainId # 250
  /\ HasUnderlying /\ token # Underlying
  /\ PartnerAllowed /\ partner.address # ""
  /\ outcome.kind = "returned"

\* C18: on Fantom, getDepositContractAddress for a token that is neither native nor the
\* underlying token returns one fixed router address and asks the address registry
\* nothing; getWithdrawContractAddress returns the same address there for a token that
\* is not the underlying token.
C18_FantomRoutesAreTheRouter ==
  /\ op \in {"getDepositContractAddress", "getWithdrawContractAddress"} /\ pc = "done"
  /\ chainId = 250
  /\ HasUnderlying /\ token # Underlying
  /\ op = "getDepositContractAddress" => token # "eth"
  => /\ outcome = ReturnedValue("0x7Bbd6348db83C2fb3633Eebb70367E1AEc258764")
     /\ Times("addressById") = 0

\* A deposit route on Fantom for a zap into a vault outside the jar set
C18_Witness ==
  /\ op = "getDepositContractAddress" /\ pc = "done"
  /\ chainId = 250 /\ vault \notin PickleJars
  /\ HasUnderlying /\ token \notin {"eth", Underlying}
  /\ outcome.kind = "returned"

\* C19: getWithdrawContractAddress returns the vault address exactly when the token is
\* the vault's underlying token; for another token it returns the fixed router on
\* Fantom and the address registered under zapperZapOut on every other chain; the jar
\* set and the partner service have no part in it.
C19_WithdrawRoute ==
  /\ op = "getWithdrawContractAddress" /\ pc = "done"
  /\ HasUnderlying
  => /\ token = Underlying => outcome = ReturnedValue(vault)
     /\ outcome.kind = "returned" /\ outcome.value = vault => token = Underlying
     /\ token # Underlying /\ chainId = 250
          => outcome = ReturnedValue("0x7Bbd6348db83C2fb3633Eebb70367E1AEc258764")
     /\ token # Underlying /\ chainId # 250 /\ addressProvider = "resolves"
          => outcome = ReturnedValue("0xZapperZapOut")

\* The underlying token out of a pickle jar the partner service is allowed for
C19_Witness ==
  /\ op = "getWithdrawContractAddress" /\ pc = "done"
  /\ HasUnderlying /\ token = Underlying
  /\ vault \in PickleJars /\ PartnerAllowed
  /\ outcome.kind = "returned"

\* The calls of withdraw that leave the process for a quote, a validation or a send
QuoteOrSendCalls ==
  {"wido.withdraw", "zapper.zapOut", "populateTransaction.withdraw", "validateCalldata",
   "signer.sendTransaction"}

\* withdraw was called for a token that is not the vault's underlying token, without
\* options.slippage
WithdrawZapWithoutSlippage ==
  /\ op = "withdraw"
  /\ HasUnderlying /\ token # Underlying
  /\ slippage = Undefined

Retries == {k \in 1..Len(sent) : sent[k].attempt = 2}

\* The legacy gas price of the second attempt: the caller's gasPrice or else (none
\* given, or zero) the quote's on the zapper route, the caller's gasPrice on the direct
\* route
LegacyGasPrice ==
  IF route.kind = "zapper" /\ callerOverrides.gasPrice \in {Undefined, ZeroGasPrice}
  THEN "quoteGasPrice"
  ELSE callerOverrides.gasPrice

\* C21: on the zapper route and on the direct route, a first attempt that fails with
\* code -32602 is followed by exactly one more attempt; the transaction of the second
\* attempt has maxFeePerGas and maxPriorityFeePerGas cleared and the legacy gasPrice
\* (the caller's override or else the quote's on the zapper route, the caller's
\* original gasPrice on the direct route); an error of the second attempt, -32602
\* included, is thrown and no third attempt is made.
C21_RetryOnceWithLegacyGas ==
  route.kind \in {"direct", "zapper"}
  => /\ Len(rejected) >= 1 /\ rejected[1] = "-32602" => attempt = 2
     /\ attempt <= 2 /\ Cardinality(Retries) <= 1 /\ Len(sent) <= 2
     /\ \A k \in Retries :
          /\ sent[k].maxFeePerGas = Undefined
          /\ sent[k].maxPriorityFeePerGas = Undefined
          /\ sent[k].gasPrice = LegacyGasPrice
     /\ Len(rejected) <= 2
     /\ Len(rejected) = 2 => pc = "done" /\ outcome = Thrown(rejected[2], 0)

\* Both attempts of a zap failed with -32602, the caller having given fee fields
C21_Witness ==
  /\ route.kind = "zapper" /\ pc = "done"
  /\ rejected = <<"-32602", "-32602">>
  /\ callerOverrides.maxFeePerGas # Undefined
  /\ Len(sent) = 2

\* C22: deposit and withdraw make at most two send attempts, and a second one only
\* after the first failed with code -32602: an error of the first attempt with any
\* other code, or with none, is thrown to the caller as it is, with no retry.
C22_RetryOnlyOnCode ==
  /\ attempt <= 2 /\ Len(sent) <= 2
  /\ attempt = 2 => rejected # <<>> /\ rejected[1] = "-32602"
  /\ rejected # <<>> /\ rejected[1] # "-32602"
       => /\ pc = "done" /\ outcome = Thrown(rejected[1], 0)
          /\ attempt = 1 /\ Len(rejected) = 1 /\ Retries = {}

\* The first send of a direct withdraw failed with another code
C22_Witness ==
  /\ op = "withdraw" /\ route.kind = "direct" /\ pc = "done"
  /\ rejected = <<"other">>
  /\ Len(sent) = 1

\* The gas-pricing schemes a transaction has populated
Legacy(tx) == tx.gasPrice # Undefined

Eip1559(tx) == tx.maxFeePerGas # Undefined \/ tx.maxPriorityFeePerGas # Undefined

\* The caller gave no value for the scheme the attempt of tx sends with
NothingGiven(tx) ==
  IF tx.attempt = 1
  THEN callerOverrides.maxFeePerGas = Undefined /\ callerOverrides.maxPriorityFeePerGas = Undefined
  ELSE LegacyGasPrice = Undefined

\* C23 as stated: every transaction deposit or withdraw hands to sendTransaction has
\* exactly one gas-pricing scheme populated, legacy gasPrice or the EIP-1559 fee
\* fields: never both and never neither.
C23_ExactlyOneScheme ==
  \A k \in 1..Len(sent) : Legacy(sent[k]) # Eip1559(sent[k])

\* C23, amended: every transaction deposit or withdraw hands to sendTransaction, on
\* the first attempt and on the retry, has at most one gas-pricing scheme populated,
\* never both; it has neither exactly when it is the router-aggregator's transaction
\* or the caller gave no value for the scheme of that attempt (no fee field for the
\* first attempt, no legacy gas price for the retry of the direct route).
C23_AtMostOneScheme ==
  \A k \in 1..Len(sent) :
    /\ ~(Legacy(sent[k]) /\ Eip1559(sent[k]))
    /\ ~Legacy(sent[k]) /\ ~Eip1559(sent[k]) <=> route.kind = "wido" \/ NothingGiven(sent[k])

\* A zap sent twice for a caller who gave a gas price and a fee field
C23_Witness ==
  /\ route.kind = "zapper" /\ Len(sent) = 2
  /\ callerOverrides.gasPrice # Undefined /\ callerOverrides.maxPriorityFeePerGas # Undefined
  /\ Eip1559(sent[1]) /\ Legacy(sent[2])

\* C24: on every route (direct, zapper, router-aggregator) a transaction of deposit or
\* withdraw is sent through the two-attempt fallback: a first send that fails with
\* code -32602 is always followed by one retry.
C24_FallbackOnEveryRoute ==
  rejected # <<>> /\ rejected[1] = "-32602" => attempt = 2

\* C25: on the zapper route the quote's gas price is never sent on the first attempt,
\* zap-out included; on the retry the gasPrice sent is the caller's whenever the caller
\* gave one, and the quote's only when the caller gave none.
C25_QuoteGasPriceOnlyAsFallback ==
  route.kind = "zapper"
  => \A k \in 1..Len(sent) :
       /\ sent[k].attempt = 1 => sent[k].gasPrice # "quoteGasPrice"
       /\ sent[k].attempt = 2 /\ callerOverrides.gasPrice # Undefined
            => sent[k].gasPrice = callerOverrides.gasPrice
       /\ sent[k].attempt = 2 /\ sent[k].gasPrice = "quoteGasPrice"
            => callerOverrides.gasPrice = Undefined

\* The transactions whose validation has completed
Validated == {k \in 1..Len(sent) : sent[k].validation # "pending"}

\* The number of entries `call` among the first n of the log
TimesUntil(call, n) == Cardinality({k \in 1..n : log[k] = call})

\* C26: sendTransaction hands a transaction to the signer only after its allow-list
\* validation has completed, and hands it over whether the validation succeeded or
\* not, unaltered; with no allow-list service the validation counts as success, no
\* validateCalldata is issued and the transaction goes to the signer.
C26_ValidationNeverBlocks ==
  /\ Times("signer.sendTransaction") = Cardinality(Validated)
  /\ pc = "send" => sent # <<>> /\ Len(sent) \in Validated
  /\ allowList
       => /\ Times("validateCalldata") = Len(sent)
          /\ \A n \in 1..Len(log) :
               TimesUntil("signer.sendTransaction", n) <= TimesUntil("validateCalldata", n)
  /\ ~allowList
       => /\ Times("validateCalldata") = 0
          /\ \A k \in 1..Len(sent) : sent[k].validation = "success"

\* A transaction the allow-list refused was sent and answered
C26_Witness ==
  /\ allowList /\ pc = "done" /\ outcome.kind = "returned"
  /\ Len(sent) = 1 /\ sent[1].validation = "failure"

\* The override field that stands for a field of the dynamic metadata
OverrideOf(f) ==
  IF f = "symbol" THEN "vaultSymbolOverride"
  ELSE IF f = "displayIcon" THEN "vaultIconOverride"
  ELSE f

\* The value after fillMetadataOverrides is the override's when the override has one,
\* and the value before when it has none
OverrideWins(given, before, after) == after = (IF given = Undefined THEN before ELSE given)

\* C27: fillMetadataOverrides leaves the value of the dynamic record untouched for
\* every override field that is absent (display name, symbol, icon, the APY overrides
\* and the ten fields from depositsDisabled to vaultDetailPageAssets), never putting
\* undefined in its place, and takes the override's value for every field present.
C27_AbsentOverridesLeaveValues ==
  op = "fillMetadataOverrides" /\ pc = "done"
  => /\ \A f \in AssignedFields \cup {"displayName", "symbol", "displayIcon"} :
          OverrideWins(override[OverrideOf(f)], metadata[f], outcome.value[f])
     /\ override.apyTypeOverride = Undefined /\ override.apyOverride = Undefined
          => outcome.value.apy = metadata.apy
     /\ override.apyTypeOverride # Undefined
          => outcome.value.apy.type = override.apyTypeOverride
     /\ override.apyOverride # Undefined
          => outcome.value.apy.net_apy = override.apyOverride

\* C28: after fillMetadataOverrides, hideIfNoDeposits is true exactly when the vault
\* is in emergency shutdown, or the override marks it retired, or the resulting
\* migrationAvailable (the dynamic value or the override's) is true; a vault whose
\* dynamic record alone reports migrationAvailable is hidden when it has no deposits.
C28_HideIfNoDeposits ==
  op = "fillMetadataOverrides" /\ pc = "done"
  => (outcome.value.hideIfNoDeposits = "true"
        <=> \/ metadata.emergencyShutdown = "true"
            \/ override.retired = "true"
            \/ outcome.value.migrationAvailable = "true")

\* C29: deposit into a vault of the pickle-jar set always goes to zapIn with
\* ZapProtocol.PICKLE, before the token is compared with the underlying token and
\* without the static record of the vault being fetched; it is never routed with
\* ZapProtocol.YEARN and never sent as a direct vault deposit.
C29_JarDepositZapsWithPickle ==
  op = "deposit" /\ vault \in PickleJars
  => /\ Times("getStatic") = 0 /\ pc # "static"
     /\ route.kind # "direct" /\ Times("populateTransaction.deposit") = 0
     /\ Times("partner.populateDepositTransaction") = 0
     /\ route.zapProtocol # "YEARN"
     /\ route.kind # "none" => route.zapProtocol = "PICKLE"
     /\ \A k \in 1..Len(sent) : sent[k].route # "direct"
     /\ pc = "done" /\ route.kind = "none"
          => slippage = Undefined /\ outcome = Thrown("SdkError", 0)

\* The underlying token of a jar, deposited through the zapper with the partner
\* service allowed for the jar
C29_Witness ==
  /\ op = "deposit" /\ vault \in PickleJars /\ pc = "done"
  /\ HasUnderlying /\ token = Underlying /\ PartnerAllowed
  /\ route = Route("zapper", "PICKLE")
  /\ outcome.kind = "returned"

\* The calls of deposit that leave the process for a quote, a validation or a send
DepositQuoteOrSendCalls ==
  {"wido.deposit", "zapper.zapIn", "populateTransaction.deposit",
   "partner.populateDepositTransaction", "validateCalldata", "signer.sendTransaction"}

\* C30: a zap-class deposit (into a jar, or of a token that is not the vault's
\* underlying token) without options.slippage fails with an SdkError before any quote
\* request, allow-list validation or transaction send, on Fantom as on every other
\* chain: the slippage is tested before the chain.
C30_DepositMissingSlippage ==
  /\ op = "deposit" /\ slippage = Undefined
  /\ vault \in PickleJars \/ (HasUnderlying /\ token # Underlying)
  => /\ \A k \in 1..Len(log) : log[k] \notin DepositQuoteOrSendCalls
     /\ sent = <<>> /\ route.kind = "none"
     /\ pc = "done" => outcome = Thrown("SdkError", 0)

\* A zap on Fantom into a vault outside the jar set has failed for want of slippage
C30_Witness ==
  /\ op = "deposit" /\ slippage = Undefined /\ pc = "done"
  /\ chainId = 250 /\ vault \notin PickleJars
  /\ HasUnderlying /\ token # Underlying
  /\ outcome = Thrown("SdkError", 0)

\* The route class of a resolved spender: the vault, the partner tracking contract,
\* or a zap or router contract
SpenderClass(address) ==
  IF address = vault THEN "vault"
  ELSE IF partner.defined /\ address = partner.address THEN "partner"
  ELSE "zap"

\* The route class deposit executes on
ExecutedClass ==
  IF route.kind \in {"zapper", "wido"} THEN "zap"
  ELSE IF PopulateCall = "partner.populateDepositTransaction" THEN "partner"
  ELSE "vault"

\* C33: the route class of the spender getDepositContractAddress resolves (vault,
\* partner tracking contract, zap or router) is the route class deposit executes on,
\* for every vault, token, chain and partner configuration.
C33_ApprovedRouteIsExecutedRoute ==
  op = "deposit" /\ previous.defined /\ route.kind # "none"
  => ExecutedClass = SpenderClass(previous.value)

\* C34: when deposit or withdraw has returned or failed, the caller's overrides object
\* holds the gasPrice, maxFeePerGas and maxPriorityFeePerGas it held before the call,
\* on every route and after one attempt as after two.
C34_CallerOverridesUnchanged ==
  op \in {"deposit", "withdraw"} /\ pc = "done" => overrides = callerOverrides

\* The dynamic records as the responses give them, whatever the order they came in:
\* the unchunked answer, or the chunks' answers in chunk order
DynamicOfResponses ==
  IF unchunked.st = "ok"
  THEN WithApy(unchunked.data)
  ELSE Flat([j \in 1..Len(chunkCalls) |-> chunkCalls[j].data])

\* No sub-request of get is in flight
AllSettled ==
  /\ metaCall # "pending" /\ staticCall # "pending"
  /\ unchunked.st \in {"ok", "failed"}
  /\ \A j \in 1..Len(chunkCalls) : chunkCalls[j].st \in {"ok", "failed"}
  /\ stratCall \notin {"idle", "pending"} /\ earnCall \notin {"idle", "pending"}

\* C32: the list get returns is determined by the responses of its sub-requests (the
\* adapter queries, the chunked fallback queries, the strategy and earnings lookups)
\* and not by the order in which they complete: same records, same order; and get
\* returns only when all of them have completed.
C32_ListIndependentOfCompletionOrder ==
  op = "get" /\ pc = "done" /\ outcome.kind = "returned"
  => /\ AllSettled
     /\ outcome = MergeResult(assetsStatic, DynamicOfResponses, vaultMetadataOverrides,
                              strategiesMetadata(stratCall), assetsHistoricEarnings(earnCall))

\* A list returned after a chunked fallback of several chunks, the strategy lookup
\* having failed and the earnings lookup not
C32_Witness ==
  /\ op = "get" /\ pc = "done" /\ outcome.kind = "returned"
  /\ Len(chunkCalls) >= 2
  /\ stratCall = "failed" /\ earnCall = "ok"

----------------------------------------------------------------------------
\* Properties of positionsOf

\* The positionsOf calls adapter k received, in order
PositionsCallsOf(k) ==
  SelectSeq(log, LAMBDA c : c.call = "positionsOf" /\ c.adapter = k)

\* The addresses adapter k was asked again for, call after call
RequeriedOf(k) ==
  LET calls == PositionsCallsOf(k)
  IN  Flat([i \in 1..(Len(calls) - 1) |-> calls[i + 1].addresses.value])

\* The caller's filter, and the addresses of all static vaults when none is given
FilterOrStaticVaults == IF addresses.defined THEN addresses.value ELSE StaticVaultAddresses

\* C31: positionsOf applies the chunked fallback per adapter.  Every adapter gets the
\* caller's filter once; an adapter whose call did not fail gets no other call; the
\* calls an adapter with a failed call gets after it are of 1 to 30 addresses each
\* and, in order, make up the caller's filter, or the addresses of all static vaults
\* when there is no filter; a chunk that fails makes positionsOf throw, and it
\* returns only when every adapter is answered.
C31_ChunkedFallbackPerAdapter ==
  op = "positionsOf" /\ pc # "start"
  => /\ \A k \in AdapterIds :
          LET calls == PositionsCallsOf(k)
          IN  /\ Len(calls) >= 1
              /\ calls[1].addresses = addresses
              /\ positions[k].bulk # "failed" => Len(calls) = 1
              /\ \A i \in 2..Len(calls) :
                    /\ calls[i].addresses.defined
                    /\ Len(calls[i].addresses.value) \in 1..ChunkSize
              /\ positions[k].bulk = "failed" /\ (Len(calls) > 1 \/ positions[k].at = "resolved")
                 => RequeriedOf(k) = FilterOrStaticVaults
              /\ (\E i \in 1..Len(positions[k].chunks) : positions[k].chunks[i].st = "failed")
                 => pc = "done" /\ outcome.kind = "thrown"
     /\ outcome.kind = "returned"
        => \A k \in AdapterIds :
              /\ positions[k].at = "resolved"
              /\ \A i \in 1..Len(positions[k].chunks) : positions[k].chunks[i].st = "ok"

\* positionsOf returned without a filter: the first adapter's call succeeded, the
\* second one's failed and it was asked again in three chunks
C31_Witness ==
  /\ op = "positionsOf" /\ pc = "done" /\ outcome.kind = "returned"
  /\ ~addresses.defined
  /\ positions[1].bulk = "ok"
  /\ positions[2].bulk = "failed"
  /\ Len(PositionsCallsOf(2)) = 4
  /\ Len(PositionsCallsOf(1)) = 1

----------------------------------------------------------------------------
\* Properties of the Yearn instance

\* The chain id the instance was given last
LastSetChainId == yearn.set[Len(yearn.set)]

\* The address provider, the services, the registry adapter and the interfaces of
\* the instance
Components ==
  {yearn.addressProvider, yearn.adapters.vaults.v2}
    \cup {yearn.services[s] : s \in DOMAIN yearn.services}
    \cup {yearn.vaults, yearn.tokens, yearn.earnings, yearn.fees, yearn.simulation,
          yearn.strategies}

\* The allow-list instances services.transaction validates with
TransactionAllowLists ==
  {yearn.services.transaction.deps[i].object :
     i \in {j \in 1..Len(yearn.services.transaction.deps) :
              yearn.services.transaction.deps[j].role = "allowList"}}

\* C35: after construction and after any sequence of setChainId calls the address
\* provider, every service, the registry adapter and every interface (vaults, tokens,
\* earnings, fees, simulation, strategies) of the instance are there and made by the
\* last call with the chain id set last, as is everything they hold; and
\* services.allowList is the one allow-list instance services.transaction validates
\* with.
C35_BoundToLastChainId ==
  op = "setChainId"
  => /\ \A object \in Components :
          /\ object.class = Undefined => object = yearn.services.partner
          /\ \A held \in Reachable(object) :
                held.class # Undefined
                => held.chainId = LastSetChainId /\ held.id.call = Len(yearn.set)
     /\ yearn.services.allowList.class = "AllowListService"
     /\ TransactionAllowLists = {yearn.services.allowList}

\* An instance with a partner id after two calls of setChainId, each with another
\* chain id than the call before
C35_Witness ==
  /\ op = "setChainId"
  /\ Len(yearn.set) = 3
  /\ yearn.set[1] # yearn.set[2] /\ yearn.set[2] # yearn.set[3]
  /\ yearn.services.partner.class = "PartnerService"

====
